---- MODULE Spec2Model ----
(***************************************************************************)
(* Model of the dependency-aware orchestration core:                       *)
(*   crates/orchestrator/src/{engine,scheduler,state_machine,models}.rs    *)
(*   crates/server/src/routes/orchestration.rs                             *)
(* One ProjectOrchestrator, its tokio RwLock<OrchestratorState>, its       *)
(* broadcast channel of OrchestratorEvents, the callers that run its       *)
(* operations concurrently, the task/dependency rows it reads, and the     *)
(* OrchestratorManager that hands orchestrators to the server's handlers.  *)
(***************************************************************************)
EXTENDS Integers, Sequences, FiniteSets, TLC

-----------------------------------------------------------------------------
(* Bounds of the model *)

\* number of task rows of the project
NTasks == 3
\* number of orchestrator operations called in one behaviour
MaxOps == 3
\* number of status writes made by the external writers in one behaviour
MaxWrites == 1
\* largest max_parallel_tasks an orchestrator is constructed with
MaxParallel == 2
\* number of events sent in one behaviour of the busy channel (SpecLag)
MaxEvents == 102
\* longest task list whose levels are computed (SpecLevels)
MaxList == 4

Tasks == 1..NTasks

\* genres of the project
NGenres == 3

\* items of the GitHub project
NIssues == 2

\* runs of sync_from_github
MaxRuns == 2

\* links of the github_project_links table
NLinks == 3

\* ticks of the sync monitor
MaxTicks == 2
Genres == 1..NGenres
\* concurrent callers (request handlers) of one orchestrator
Procs == {1, 2}
\* WebSocket subscribers
Subs == {1, 2}
\* project ids known to the OrchestratorManager
Projects == {1, 2}

-----------------------------------------------------------------------------
(* models.rs *)

TaskStatus == {"Todo", "InProgress", "InReview", "Done", "Cancelled"}

OrchestratorState == {"Idle", "Running", "Paused", "Stopping"}

\* TaskReadiness: Ready | Blocked{blocking_task_ids} | InProgress | Completed | Cancelled
Readiness(kind, blocking) == [kind |-> kind, blocking_task_ids |-> blocking]

-----------------------------------------------------------------------------
(* scheduler.rs: pure functions.  st is the task list (id -> status), dp    *)
(* the dependency list, a set of <<task_id, depends_on_task_id>>.           *)

\* deps_for_task / dependents_of_task adjacency (build_execution_plan)
DepsForTask(dp, t) == {e[2] : e \in {d \in dp : d[1] = t}}
DependentsOfTask(dp, t) == {e[1] : e \in {d \in dp : d[2] = t}}

\* usize::saturating_sub
SaturatingSub(a, b) == IF a > b THEN a - b ELSE 0

\* a drain that frees a task as soon as one of its dependencies is placed
DrainLevelFirstDependency(dp, deg, level) ==
    [t \in DOMAIN deg |-> IF DepsForTask(dp, t) \cap level # {} THEN 0 ELSE deg[t]]

\* One pass of the while loop of Kahn's algorithm: the in-degrees after the
\* tasks of `level` were drained
DrainLevel(dp, deg, level) ==
    [t \in DOMAIN deg |->
        SaturatingSub(deg[t], Cardinality(DepsForTask(dp, t) \cap level))]

RECURSIVE KahnLevels(_, _, _, _)
KahnLevels(dp, deg, current_level, levels) ==
    IF current_level = {} THEN levels
    ELSE LET after == DrainLevel(dp, deg, current_level)
             next_level == {t \in DOMAIN deg :
                               /\ DepsForTask(dp, t) \cap current_level # {}
                               /\ after[t] = 0}
         IN  KahnLevels(dp, after, next_level, Append(levels, current_level))

\* topological_sort_levels: the tasks grouped by level, as sets (the order
\* inside a level is the iteration order of a HashMap, see LevelOrders)
TopologicalSortLevels(ids, dp) ==
    LET in_degree == [t \in ids |-> Cardinality(DepsForTask(dp, t))]
    IN  KahnLevels(dp, in_degree, {t \in ids : in_degree[t] = 0}, <<>>)

\* a readiness for which a Cancelled dependency no longer blocks
CalculateReadinessCancelledUnblocks(st, dp, t) ==
    CASE st[t] = "Done" -> Readiness("Completed", {})
      [] st[t] = "Cancelled" -> Readiness("Cancelled", {})
      [] st[t] \in {"InProgress", "InReview"} -> Readiness("InProgress", {})
      [] OTHER ->
            LET blocking_tasks == {d \in DepsForTask(dp, t) :
                                      d \in DOMAIN st /\ st[d] \notin {"Done", "Cancelled"}}
            IN  IF blocking_tasks = {} THEN Readiness("Ready", {})
                ELSE Readiness("Blocked", blocking_tasks)

\* a readiness that waits for the dependents of a task as well
CalculateReadinessBothWays(st, dp, t) ==
    CASE st[t] = "Done" -> Readiness("Completed", {})
      [] st[t] = "Cancelled" -> Readiness("Cancelled", {})
      [] st[t] \in {"InProgress", "InReview"} -> Readiness("InProgress", {})
      [] OTHER ->
            LET blocking_tasks == {d \in DepsForTask(dp, t) \cup DependentsOfTask(dp, t) :
                                      d \in DOMAIN st /\ st[d] # "Done"}
            IN  IF blocking_tasks = {} THEN Readiness("Ready", {})
                ELSE Readiness("Blocked", blocking_tasks)

\* calculate_readiness
CalculateReadiness(st, dp, t) ==
    CASE st[t] = "Done" -> Readiness("Completed", {})
      [] st[t] = "Cancelled" -> Readiness("Cancelled", {})
      [] st[t] \in {"InProgress", "InReview"} -> Readiness("InProgress", {})
      [] OTHER ->
            LET blocking_tasks == {d \in DepsForTask(dp, t) :
                                      d \in DOMAIN st /\ st[d] # "Done"}
            IN  IF blocking_tasks = {} THEN Readiness("Ready", {})
                ELSE Readiness("Blocked", blocking_tasks)

\* ExecutableTask
ExecutableTask(st, dp, t) ==
    [task_id |-> t, status |-> st[t],
     readiness |-> CalculateReadiness(st, dp, t),
     dependencies |-> DepsForTask(dp, t),
     dependents |-> DependentsOfTask(dp, t)]

\* every sequence that lists the elements of S once
Orders(S) == {f \in [1..Cardinality(S) -> S] : \A x \in S : \E i \in DOMAIN f : f[i] = x}

\* The orders a level can come out in: topological_sort_levels walks
\* HashMaps, whose iteration order is unspecified
RECURSIVE LevelOrders(_)
LevelOrders(levels) ==
    IF levels = <<>> THEN {<<>>}
    ELSE {<<h>> \o rest : h \in Orders(Head(levels)), rest \in LevelOrders(Tail(levels))}

RECURSIVE Flatten(_)
Flatten(levels) == IF levels = <<>> THEN <<>> ELSE Head(levels) \o Flatten(Tail(levels))

\* the counters of the statistics loop
CountReadiness(tasks, kind) ==
    Cardinality({i \in DOMAIN tasks : tasks[i].readiness.kind = kind})
CountStatus(tasks, status) ==
    Cardinality({i \in DOMAIN tasks : tasks[i].status = status})

\* build_execution_plan, for one iteration order `ordered` of the levels
ExecutionPlan(st, dp, ordered) ==
    LET execution_levels ==
            [i \in DOMAIN ordered |->
                [level |-> i - 1,
                 tasks |-> [j \in DOMAIN ordered[i] |-> ExecutableTask(st, dp, ordered[i][j])]]]
        listed == Flatten([i \in DOMAIN execution_levels |-> execution_levels[i].tasks])
    IN  [levels |-> execution_levels,
         total_tasks |-> Cardinality(DOMAIN st),
         completed_tasks |-> CountReadiness(listed, "Completed"),
         in_progress_tasks |-> CountReadiness(listed, "InProgress"),
         in_review_tasks |-> CountStatus(listed, "InReview"),
         ready_tasks |-> CountReadiness(listed, "Ready"),
         blocked_tasks |-> CountReadiness(listed, "Blocked")]

\* build_execution_plan: the plans a call can return
BuildExecutionPlan(st, dp) ==
    {ExecutionPlan(st, dp, ordered) :
        ordered \in LevelOrders(TopologicalSortLevels(DOMAIN st, dp))}

\* all ExecutableTasks of a plan, in plan order
PlanTasks(plan) == Flatten([i \in DOMAIN plan.levels |-> plan.levels[i].tasks])

\* get_ready_tasks
GetReadyTasks(plan) == SelectSeq(PlanTasks(plan), LAMBDA et : et.readiness.kind = "Ready")

\* an unblocking that returns every task the completing task blocks
GetTasksBlockedBy(plan, completed_task_id) ==
    LET any == SelectSeq(PlanTasks(plan),
                   LAMBDA et : /\ et.readiness.kind = "Blocked"
                               /\ completed_task_id \in et.readiness.blocking_task_ids)
    IN  [i \in DOMAIN any |-> any[i].task_id]

\* get_tasks_unblocked_by_completion
GetTasksUnblockedByCompletion(plan, completed_task_id) ==
    LET only == SelectSeq(PlanTasks(plan),
                    LAMBDA et : /\ et.readiness.kind = "Blocked"
                                /\ et.readiness.blocking_task_ids = {completed_task_id})
    IN  [i \in DOMAIN only |-> only[i].task_id]

\* Iterator::take
Take(s, n) == SubSeq(s, 1, IF n < Len(s) THEN n ELSE Len(s))

\* the greatest number of a set
MaxOf(S) == CHOOSE x \in S : \A y \in S : y <= x

-----------------------------------------------------------------------------
(* The state *)

VARIABLES
    state,              \* ProjectOrchestrator.state: RwLock<OrchestratorState>
    writer,             \* the caller holding the write guard of `state`, 0 if none
    max_parallel_tasks, \* ProjectOrchestrator.max_parallel_tasks
    status,             \* tasks table: id -> status
    deps,               \* task_dependencies table: <<task_id, depends_on_task_id>>
    log,                \* every event handed to event_sender.send, in send order
    pc,                 \* per caller: where it stands in the operation it runs
    call,               \* per caller: the operation it runs or ran last
    ret,                \* per caller: what that operation returned
    nops,               \* operations called so far
    nwrites,            \* status writes made so far
    rx,                 \* per subscriber: its broadcast::Receiver
    stream,             \* per subscriber: the frames forwarded to its socket
    orchestrators,      \* OrchestratorManager.orchestrators: project -> instance, 0 if absent
    insts,              \* every ProjectOrchestrator made by the manager, in creation order
    hnd,                \* per handler of the server: its use of the manager
    removed,            \* the projects remove was called for
    last_plan,          \* the ExecutionPlan build_plan returned last
    out,                \* the last call of a function on a plan or a task, and its result
    dag_position,       \* tasks table: id -> <<dag_position_x, dag_position_y>>, <<>> if NULL
    req,                \* per handler of the server: its dependency request
    written,            \* the tasks the last recalculate_dag_layout wrote
    genres,             \* dependency_genres table: id -> position
    reorder_req,        \* per handler of the server: its reorder request
    items,              \* the GitHub project: issue number -> the issue as it is now
    task_rows,          \* tasks table of the linked project: id -> title, description, status
    mappings,           \* github_issue_mappings table: issue number -> mapping
    sync,               \* per caller: its sync_from_github run
    links,              \* github_project_links table: id -> sync_enabled, last_sync_at
    monitor,            \* the GitHubSyncMonitor task: where its loop stands
    client,             \* SyncService.client is Some
    sync_queue,         \* SyncService.queue: VecDeque<SyncOperation>
    remote,             \* the remote tasks table: id -> status, assigned_to, branch_name
    svc,                \* per caller: its call of the SyncService
    uuid,               \* SyncOperations made so far, plus one
    attempts,           \* operation id -> execute_operation calls made for it
    latest              \* task -> the id of the last operation submitted for its status

vars == <<state, writer, max_parallel_tasks, status, deps, log, pc, call, ret,
          nops, nwrites, rx, stream, orchestrators, insts, hnd, removed, last_plan, out,
          dag_position, req, written, genres, reorder_req, items, task_rows, mappings,
          sync, links, monitor, client, sync_queue, remote, svc, uuid, attempts, latest>>

\* the dependency routes and the layout they keep
Dag == <<dag_position, req, written>>

\* the genre routes
Genre == <<genres, reorder_req>>

\* the GitHub sync service and the rows it keeps
Gh == <<items, task_rows, mappings, sync>>

\* the sync monitor and the links it walks
Mon == <<links, monitor>>

\* the offline write queue, the remote table it pushes to, and its bookkeeping
Queue == <<client, sync_queue, remote, svc, uuid, attempts, latest>>

\* what the orchestrator never touches
Ext == <<Dag, Genre, Gh, links, monitor, client, sync_queue, remote, svc, uuid, attempts, latest>>

Sched == <<last_plan, out>>

Mgr == <<orchestrators, insts, hnd, removed>>

\* broadcast::channel(100)
ChannelCapacity == 100

\* OrchestratorManager::new(3) of the server
DefaultMaxParallel == 3

NoCall == [op |-> "none", task_id |-> 0, id |-> 0, seen |-> "-"]
NoRet == [kind |-> "None", ids |-> <<>>, state |-> "-"]
Ok == [kind |-> "Ok", ids |-> <<>>, state |-> "-"]
OkIds(ids) == [kind |-> "Ok", ids |-> ids, state |-> "-"]
OkState(s) == [kind |-> "Ok", ids |-> <<>>, state |-> s]
\* OrchestratorError::{AlreadyRunning, NotRunning, Database}
Err(e) == [kind |-> e, ids |-> <<>>, state |-> "-"]

\* OrchestratorEvent; `op` is the call that emitted it (not part of the
\* payload: it lets the properties name the emitter).  A PlanUpdated carries
\* the totals of its plan.
StateChanged(s, id) ==
    [type |-> "StateChanged", state |-> s, task_id |-> 0, plan |-> <<>>, op |-> id]
TaskEvent(type, t, id) ==
    [type |-> type, state |-> "-", task_id |-> t, plan |-> <<>>, op |-> id]
PlanUpdated(plan, id) ==
    [type |-> "PlanUpdated", state |-> "-", task_id |-> 0,
     plan |-> <<plan.total_tasks, plan.completed_tasks, plan.in_progress_tasks,
                plan.in_review_tasks, plan.ready_tasks, plan.blocked_tasks>>,
     op |-> id]

\* emit_event: broadcast send, never blocks, send errors ignored
EmitEvent(event) == log' = Append(log, event)

\* a caller is free to make its next call
CanCall(p) == pc[p] \in {"idle", "done"} /\ nops < MaxOps

Called(p, op, t, seen) ==
    /\ call' = [call EXCEPT ![p] = [op |-> op, task_id |-> t, id |-> nops + 1, seen |-> seen]]
    /\ nops' = nops + 1

Return(p, r) ==
    /\ pc' = [pc EXCEPT ![p] = "done"]
    /\ ret' = [ret EXCEPT ![p] = r]

Goto(p, label) ==
    /\ pc' = [pc EXCEPT ![p] = label]
    /\ ret' = [ret EXCEPT ![p] = NoRet]

\* self.state.write().await is granted when no guard is held
WriteLockFree == writer = 0
\* self.state.read().await is granted when no write guard is held
ReadLockFree == writer = 0

Repo == <<status, deps, nwrites>>
Bus == <<rx, stream>>
\* the one orchestrator whose operations are modelled step by step
One == <<state, writer, max_parallel_tasks, log, pc, call, ret>>

-----------------------------------------------------------------------------
(* engine.rs: ProjectOrchestrator *)

\* a start that is accepted from Idle only
StartRejectedUnlessIdle(s) == s # "Idle"

\* start: the check that rejects the call
StartRejected(s) == s = "Running"

\* start, lines 74-85: under the write guard
Start(p) ==
    /\ CanCall(p) /\ WriteLockFree
    /\ Called(p, "start", 0, state)
    /\ IF StartRejected(state)
       THEN /\ Return(p, Err("AlreadyRunning"))
            /\ UNCHANGED <<state, log>>
       ELSE /\ state' = "Running"
            /\ EmitEvent(StateChanged("Running", nops + 1))
            /\ Goto(p, "start_plan")
    /\ UNCHANGED <<writer, max_parallel_tasks, Repo, Bus, Mgr, Sched, Ext>>

\* build_plan(pool).await? followed by the PlanUpdated emission and Ok(()):
\* the queries fail (the ? returns the Database error) or give a plan
PlanAndEmit(p) ==
    \/ /\ Return(p, Err("Database"))
       /\ UNCHANGED log
    \/ \E plan \in BuildExecutionPlan(status, deps) :
          /\ EmitEvent(PlanUpdated(plan, call[p].id))
          /\ Return(p, Ok)

\* start, lines 86-89: the guard is dropped
StartPlan(p) ==
    /\ pc[p] = "start_plan"
    /\ PlanAndEmit(p)
    /\ UNCHANGED <<state, writer, max_parallel_tasks, Repo, call, nops, Bus, Mgr, Sched, Ext>>

\* a pause that checks nothing
PauseNeverRejected(s) == FALSE

\* pause: the check that rejects the call
PauseRejected(s) == s # "Running"

\* pause
Pause(p) ==
    /\ CanCall(p) /\ WriteLockFree
    /\ Called(p, "pause", 0, state)
    /\ IF PauseRejected(state)
       THEN /\ Return(p, Err("NotRunning"))
            /\ UNCHANGED <<state, log>>
       ELSE /\ state' = "Paused"
            /\ EmitEvent(StateChanged("Paused", nops + 1))
            /\ Return(p, Ok)
    /\ UNCHANGED <<writer, max_parallel_tasks, Repo, Bus, Mgr, Sched, Ext>>

\* resume: the check that rejects the call
ResumeRejected(s) == s # "Paused"

\* resume, lines 109-120: under the write guard
Resume(p) ==
    /\ CanCall(p) /\ WriteLockFree
    /\ Called(p, "resume", 0, state)
    /\ IF ResumeRejected(state)
       THEN /\ Return(p, Err("NotRunning"))
            /\ UNCHANGED <<state, log>>
       ELSE /\ state' = "Running"
            /\ EmitEvent(StateChanged("Running", nops + 1))
            /\ Goto(p, "resume_plan")
    /\ UNCHANGED <<writer, max_parallel_tasks, Repo, Bus, Mgr, Sched, Ext>>

\* resume, lines 121-124: the guard is dropped
ResumePlan(p) ==
    /\ pc[p] = "resume_plan"
    /\ PlanAndEmit(p)
    /\ UNCHANGED <<state, writer, max_parallel_tasks, Repo, call, nops, Bus, Mgr, Sched, Ext>>

\* a stop without the early return
StopNeverNoop(s) == FALSE

\* a stop that only stops a running orchestrator
StopIsNoopUnlessRunning(s) == s # "Running"

\* stop: the check that returns at once
StopIsNoop(s) == s = "Idle"

\* stop, lines 129-137: takes the write guard and keeps it
Stop(p) ==
    /\ CanCall(p) /\ WriteLockFree
    /\ Called(p, "stop", 0, state)
    /\ IF StopIsNoop(state)
       THEN /\ Return(p, Ok)
            /\ UNCHANGED <<state, log, writer>>
       ELSE /\ state' = "Stopping"
            /\ EmitEvent(StateChanged("Stopping", nops + 1))
            /\ writer' = p
            /\ Goto(p, "stop_idle")
    /\ UNCHANGED <<max_parallel_tasks, Repo, Bus, Mgr, Sched, Ext>>

\* stop, lines 141-146: still under the write guard, released on return
StopIdle(p) ==
    /\ pc[p] = "stop_idle"
    /\ state' = "Idle"
    /\ EmitEvent(StateChanged("Idle", call[p].id))
    /\ writer' = 0
    /\ Return(p, Ok)
    /\ UNCHANGED <<max_parallel_tasks, Repo, call, nops, Bus, Mgr, Sched, Ext>>

\* get_state
GetState(p) ==
    /\ CanCall(p) /\ ReadLockFree
    /\ Called(p, "get_state", 0, state)
    /\ Return(p, OkState(state))
    /\ UNCHANGED <<state, writer, max_parallel_tasks, Repo, log, Bus, Mgr, Sched, Ext>>

\* get_ready_to_execute: the check under the read guard
ReadyRefused(s) == s # "Running"

\* get_ready_to_execute, lines 154-158
GetReadyToExecute(p) ==
    /\ CanCall(p) /\ ReadLockFree
    /\ Called(p, "get_ready_to_execute", 0, state)
    /\ IF ReadyRefused(state)
       THEN Return(p, OkIds(<<>>))
       ELSE Goto(p, "ready_plan")
    /\ UNCHANGED <<state, writer, max_parallel_tasks, Repo, log, Bus, Mgr, Sched, Ext>>

\* a get_ready_to_execute that ignores max_parallel_tasks
ReadyToExecuteUnlimited(plan, max_parallel) ==
    LET ready == GetReadyTasks(plan)
    IN  [i \in DOMAIN ready |-> ready[i].task_id]

\* get_ready_to_execute, lines 161-171, of a built plan
ReadyToExecute(plan, max_parallel) ==
    LET ready == GetReadyTasks(plan)
        in_progress_count == plan.in_progress_tasks
        available_slots == SaturatingSub(max_parallel, in_progress_count)
        taken == Take(ready, available_slots)
    IN  [i \in DOMAIN taken |-> taken[i].task_id]

\* get_ready_to_execute, lines 160-171
GetReadyPlan(p) ==
    /\ pc[p] = "ready_plan"
    /\ \/ Return(p, Err("Database"))
       \/ \E plan \in BuildExecutionPlan(status, deps) :
             Return(p, OkIds(ReadyToExecute(plan, max_parallel_tasks)))
    /\ UNCHANGED <<state, writer, max_parallel_tasks, Repo, log, call, nops, Bus, Mgr, Sched, Ext>>

\* a notification that forgets its task event
NotifySilent(p, op, type, t, label) ==
    /\ CanCall(p)
    /\ Called(p, op, t, "-")
    /\ Goto(p, label)
    /\ UNCHANGED <<state, writer, max_parallel_tasks, Repo, log, Bus, Mgr, Sched, Ext>>

\* on_task_started / on_task_completed / on_task_failed / on_task_review:
\* the first statement emits the task event, no guard is taken
Notify(p, op, type, t, label) ==
    /\ CanCall(p)
    /\ Called(p, op, t, "-")
    /\ EmitEvent(TaskEvent(type, t, nops + 1))
    /\ Goto(p, label)
    /\ UNCHANGED <<state, writer, max_parallel_tasks, Repo, Bus, Mgr, Sched, Ext>>

OnTaskStarted(p, t) == Notify(p, "on_task_started", "TaskStarted", t, "started_plan")

\* on_task_started, lines 182-186
OnTaskStartedPlan(p) ==
    /\ pc[p] = "started_plan"
    /\ PlanAndEmit(p)
    /\ UNCHANGED <<state, writer, max_parallel_tasks, Repo, call, nops, Bus, Mgr, Sched, Ext>>

OnTaskCompleted(p, t) ==
    Notify(p, "on_task_completed", "TaskCompleted", t, "completed_plan")

\* on_task_completed, lines 198-203
OnTaskCompletedPlan(p) ==
    /\ pc[p] = "completed_plan"
    /\ \/ /\ Return(p, Err("Database"))
          /\ UNCHANGED log
       \/ \E plan \in BuildExecutionPlan(status, deps) :
             /\ EmitEvent(PlanUpdated(plan, call[p].id))
             /\ Return(p, OkIds(GetTasksUnblockedByCompletion(plan, call[p].task_id)))
    /\ UNCHANGED <<state, writer, max_parallel_tasks, Repo, call, nops, Bus, Mgr, Sched, Ext>>

OnTaskFailed(p, t) == Notify(p, "on_task_failed", "TaskFailed", t, "failed_plan")

\* an on_task_failed that cancels the dependents of the failed task
OnTaskFailedPlanCancelling(p) ==
    /\ pc[p] = "failed_plan"
    /\ PlanAndEmit(p)
    /\ status' = [t \in Tasks |->
                    IF t \in DependentsOfTask(deps, call[p].task_id)
                    THEN "Cancelled" ELSE status[t]]
    /\ UNCHANGED <<state, writer, max_parallel_tasks, deps, nwrites, call, nops, Bus, Mgr, Sched, Ext>>

\* on_task_failed, lines 215-219
OnTaskFailedPlan(p) ==
    /\ pc[p] = "failed_plan"
    /\ PlanAndEmit(p)
    /\ UNCHANGED <<state, writer, max_parallel_tasks, Repo, call, nops, Bus, Mgr, Sched, Ext>>

OnTaskReview(p, t) == Notify(p, "on_task_review", "TaskAwaitingReview", t, "review_plan")

\* on_task_review, lines 230-234
OnTaskReviewPlan(p) ==
    /\ pc[p] = "review_plan"
    /\ PlanAndEmit(p)
    /\ UNCHANGED <<state, writer, max_parallel_tasks, Repo, call, nops, Bus, Mgr, Sched, Ext>>

-----------------------------------------------------------------------------
(* The event bus: tokio broadcast, and the WebSocket forwarder *)

Orch == <<state, writer, max_parallel_tasks, pc, call, ret, nops>>

\* a subscribe that replays the channel from its first event
SubscribeFromStart(s) ==
    /\ ~rx[s].open
    /\ rx[s].next = 0
    /\ rx' = [rx EXCEPT ![s] = [open |-> TRUE, next |-> 1, since |-> Len(log)]]
    /\ UNCHANGED <<Sched, Mgr, Orch, Repo, log, stream, Ext>>

\* subscribe (handle_orchestrator_ws line 233): the receiver starts at the
\* tail of the channel
\* (`since` records how many events had been sent before the call)
Subscribe(s) ==
    /\ ~rx[s].open
    /\ rx[s].next = 0
    /\ rx' = [rx EXCEPT ![s] = [open |-> TRUE, next |-> Len(log) + 1, since |-> Len(log)]]
    /\ UNCHANGED <<Sched, Mgr, Orch, Repo, log, stream, Ext>>

\* handle_orchestrator_ws, lines 243-248: one turn of the forwarding loop.
\* recv gives the next event, or Lagged when the receiver fell more than
\* the channel's capacity behind, which ends the `while let Ok` loop
Recv(s) ==
    /\ rx[s].open
    /\ rx[s].next <= Len(log)
    /\ IF Len(log) - rx[s].next + 1 > ChannelCapacity
       THEN /\ rx' = [rx EXCEPT ![s].open = FALSE]
            /\ UNCHANGED stream
       ELSE /\ rx' = [rx EXCEPT ![s].next = @ + 1]
            /\ stream' = [stream EXCEPT ![s] = Append(@, log[rx[s].next])]
    /\ UNCHANGED <<Sched, Mgr, Orch, Repo, log, Ext>>

\* emit_event as the operations of a busy project call it, one event after
\* the other; the send takes no guard and looks at no receiver.  The events
\* are numbered in `op` so that a lost one shows.
SendEvent ==
    /\ Len(log) < MaxEvents
    /\ EmitEvent(TaskEvent("TaskStarted", 1, Len(log) + 1))
    /\ UNCHANGED <<Sched, Mgr, Orch, Repo, Bus, Mgr, Sched, Ext>>

-----------------------------------------------------------------------------
(* engine.rs: OrchestratorManager, and the handlers of the server that use  *)
(* it.  The guards of `orchestrators` are never held across a suspension,   *)
(* so each guarded section is one step; an Arc<ProjectOrchestrator> is an   *)
(* instance number, and an instance lives while an Arc to it exists.        *)

\* a handler: `orch` is the Arc it holds (0: none), `got` what get_or_create
\* returned to it, `missed` whether its read-guarded lookup found nothing,
\* `next` and `frames` the receiver and the socket of a WebSocket handler
NoHandler ==
    [op |-> "none", project_id |-> 0, pc |-> "idle", orch |-> 0, got |-> 0,
     missed |-> FALSE, next |-> 0, frames |-> 0]

HandlerKinds == {"request", "ws"}

\* Arc::strong_count of an instance: the map's clone and the handlers' clones
StrongCount(i) ==
    Cardinality({pr \in Projects : orchestrators[pr] = i})
      + Cardinality({h \in Procs : hnd[h].orch = i})

CanCallManager(h) == hnd[h].pc \in {"idle", "done"} /\ nops < MaxOps

\* get_or_create, lines 276-280: the lookup under the read guard
GetOrCreateRead(h, kind, pr) ==
    /\ CanCallManager(h)
    /\ nops' = nops + 1
    /\ hnd' = [hnd EXCEPT ![h] =
                 IF orchestrators[pr] # 0
                 THEN [NoHandler EXCEPT !.op = kind, !.project_id = pr, !.pc = "got",
                                        !.orch = orchestrators[pr],
                                        !.got = orchestrators[pr]]
                 ELSE [NoHandler EXCEPT !.op = kind, !.project_id = pr, !.pc = "write",
                                        !.missed = TRUE]]
    /\ UNCHANGED <<orchestrators, insts, removed, One, Repo, Bus, Sched, Ext>>

\* a get_or_create that inserts without looking again
GetOrCreateWriteUnchecked(h) ==
    /\ hnd[h].pc = "write"
    /\ insts' = Append(insts, [project_id |-> hnd[h].project_id, sent |-> 0])
    /\ orchestrators' = [orchestrators EXCEPT ![hnd[h].project_id] = Len(insts) + 1]
    /\ hnd' = [hnd EXCEPT ![h].pc = "got", ![h].orch = Len(insts) + 1,
                          ![h].got = Len(insts) + 1]
    /\ UNCHANGED <<removed, nops, One, Repo, Bus, Sched, Ext>>

\* get_or_create, lines 282-294: the second lookup and the insertion under
\* the write guard
GetOrCreateWrite(h) ==
    /\ hnd[h].pc = "write"
    /\ LET pr == hnd[h].project_id
       IN  IF orchestrators[pr] # 0
           THEN /\ hnd' = [hnd EXCEPT ![h].pc = "got", ![h].orch = orchestrators[pr],
                                      ![h].got = orchestrators[pr]]
                /\ UNCHANGED <<orchestrators, insts>>
           ELSE /\ insts' = Append(insts, [project_id |-> pr, sent |-> 0])
                /\ orchestrators' = [orchestrators EXCEPT ![pr] = Len(insts) + 1]
                /\ hnd' = [hnd EXCEPT ![h].pc = "got", ![h].orch = Len(insts) + 1,
                                      ![h].got = Len(insts) + 1]
    /\ UNCHANGED <<removed, nops, One, Repo, Bus, Sched, Ext>>

\* remove
Remove(h, pr) ==
    /\ CanCallManager(h)
    /\ nops' = nops + 1
    /\ orchestrators' = [orchestrators EXCEPT ![pr] = 0]
    /\ removed' = removed \cup {pr}
    /\ hnd' = [hnd EXCEPT ![h] = [NoHandler EXCEPT !.op = "remove", !.project_id = pr,
                                                   !.pc = "done"]]
    /\ UNCHANGED <<insts, One, Repo, Bus, Sched, Ext>>

\* a request handler (orchestration.rs, e.g. pause_orchestrator): the
\* operation on the orchestrator it got sends an event, then the handler
\* returns and its Arc is dropped
RequestReturns(h) ==
    /\ hnd[h].pc = "got" /\ hnd[h].op = "request"
    /\ insts' = [insts EXCEPT ![hnd[h].orch].sent = @ + 1]
    /\ hnd' = [hnd EXCEPT ![h].pc = "done", ![h].orch = 0]
    /\ UNCHANGED <<orchestrators, removed, nops, One, Repo, Bus, Sched, Ext>>

\* handle_orchestrator_ws, line 233: subscribe on the orchestrator it got
WsSubscribe(h) ==
    /\ hnd[h].pc = "got" /\ hnd[h].op = "ws"
    /\ hnd' = [hnd EXCEPT ![h].pc = "recv", ![h].next = insts[hnd[h].orch].sent + 1]
    /\ UNCHANGED <<orchestrators, insts, removed, nops, One, Repo, Bus, Sched, Ext>>

\* handle_orchestrator_ws, lines 243-250: one turn of the forwarding loop.
\* recv gives the next event if there is one, waits while a Sender lives,
\* and gives Closed once the orchestrator (the only Sender) is dropped; the
\* handler's own `orchestrator` lives until the function returns
WsTurn(h) ==
    /\ hnd[h].pc = "recv"
    /\ LET i == hnd[h].orch
       IN  /\ hnd[h].next <= insts[i].sent \/ StrongCount(i) = 0
           /\ hnd' = [hnd EXCEPT ![h] =
                        IF hnd[h].next <= insts[i].sent
                        THEN [@ EXCEPT !.next = @ + 1, !.frames = @ + 1]
                        ELSE [@ EXCEPT !.pc = "done", !.orch = 0]]
    /\ UNCHANGED <<orchestrators, insts, removed, nops, One, Repo, Bus, Sched, Ext>>

-----------------------------------------------------------------------------
(* Calls of the plan functions on the rows of the repository *)

\* no plan was built yet (a built plan has total_tasks > 0)
NoPlan ==
    [levels |-> <<>>, total_tasks |-> 0, completed_tasks |-> 0, in_progress_tasks |-> 0,
     in_review_tasks |-> 0, ready_tasks |-> 0, blocked_tasks |-> 0]

NoOut == [fn |-> "none", task_id |-> 0, new_status |-> "-", val |-> <<>>]

\* build_plan (as get_orchestrator_state calls it): both queries, then
\* build_execution_plan of their rows
BuildPlan ==
    /\ last_plan' \in BuildExecutionPlan(status, deps)
    /\ UNCHANGED <<out, One, nops, Repo, Bus, Mgr, Ext>>

\* get_tasks_unblocked_by_completion of the plan built last
UnblockedByCompletion(t) ==
    /\ last_plan # NoPlan
    /\ out' = [fn |-> "get_tasks_unblocked_by_completion", task_id |-> t,
               new_status |-> "-", val |-> GetTasksUnblockedByCompletion(last_plan, t)]
    /\ UNCHANGED <<last_plan, One, nops, Repo, Bus, Mgr, Ext>>

-----------------------------------------------------------------------------
(* state_machine.rs *)

\* a table that also lets a task go from Todo straight to Done
IsValidTransitionSkipping(from, to) ==
    <<from, to>> \in
       {<<"Todo", "InProgress">>, <<"Todo", "Cancelled">>, <<"Todo", "Done">>,
        <<"InProgress", "Todo">>, <<"InProgress", "InReview">>,
        <<"InProgress", "Done">>, <<"InProgress", "Cancelled">>,
        <<"InReview", "InProgress">>, <<"InReview", "Done">>, <<"InReview", "Cancelled">>,
        <<"Done", "Todo">>, <<"Done", "InProgress">>,
        <<"Cancelled", "Todo">>}

\* is_valid_transition
IsValidTransition(from, to) ==
    <<from, to>> \in
       {<<"Todo", "InProgress">>, <<"Todo", "Cancelled">>,
        <<"InProgress", "Todo">>, <<"InProgress", "InReview">>,
        <<"InProgress", "Done">>, <<"InProgress", "Cancelled">>,
        <<"InReview", "InProgress">>, <<"InReview", "Done">>, <<"InReview", "Cancelled">>,
        <<"Done", "Todo">>, <<"Done", "InProgress">>,
        <<"Cancelled", "Todo">>}

\* a blocking set that holds every dependency, done or not
GetBlockingTasksAnyStatus(st, dp, t) ==
    {d \in DepsForTask(dp, t) : d \in DOMAIN st}

\* get_blocking_tasks
GetBlockingTasks(st, dp, t) ==
    {d \in DepsForTask(dp, t) : d \in DOMAIN st /\ st[d] # "Done"}

\* a check that looks at the dependencies only
CanStartTaskAnyStatus(st, dp, t) ==
    GetBlockingTasks(st, dp, t) = {}

\* can_start_task
CanStartTask(st, dp, t) ==
    IF st[t] # "Todo" THEN FALSE
    ELSE GetBlockingTasks(st, dp, t) = {}

\* TransitionValidation: Valid | Invalid{reason} | RequiresConfirmation{reason, blocking_tasks}
Validation(kind, blocking) == [kind |-> kind, blocking_tasks |-> blocking]

\* a validation that does not consult the table
ValidateTransitionUnchecked(st, dp, t, new_status) ==
    IF new_status = "InProgress" /\ st[t] # new_status /\ GetBlockingTasks(st, dp, t) # {}
    THEN Validation("RequiresConfirmation", GetBlockingTasks(st, dp, t))
    ELSE Validation("Valid", {})

\* validate_transition
ValidateTransition(st, dp, t, new_status) ==
    LET current == st[t]
    IN  IF current = new_status THEN Validation("Valid", {})
        ELSE IF ~IsValidTransition(current, new_status) THEN Validation("Invalid", {})
        ELSE IF new_status = "InProgress" /\ GetBlockingTasks(st, dp, t) # {}
             THEN Validation("RequiresConfirmation", GetBlockingTasks(st, dp, t))
        ELSE Validation("Valid", {})

\* validate_task_transition (engine.rs): the rows are read, which can fail,
\* then validate_transition of the task
ValidateTaskTransition(t, new_status) ==
    /\ \E val \in {ValidateTransition(status, deps, t, new_status),
                   Validation("Database", {})} :
          out' = [fn |-> "validate_transition", task_id |-> t,
                  new_status |-> new_status, val |-> val]
    /\ UNCHANGED <<last_plan, One, nops, Repo, Bus, Mgr, Ext>>

\* can_start_task applied to the rows as they are
CanStart(t) ==
    /\ out' = [fn |-> "can_start_task", task_id |-> t, new_status |-> "-",
               val |-> [can_start |-> CanStartTask(status, deps, t)]]
    /\ UNCHANGED <<last_plan, One, nops, Repo, Bus, Mgr, Ext>>

-----------------------------------------------------------------------------
(* The external writers of the tasks table *)

WriteStatus(t, s) ==
    /\ nwrites < MaxWrites
    /\ s # status[t]
    /\ status' = [status EXCEPT ![t] = s]
    /\ nwrites' = nwrites + 1
    /\ UNCHANGED <<Sched, Mgr, Orch, deps, log, Bus, Mgr, Sched, Ext>>

\* a writer that changes a status only as validate_transition lets it
TransitionTask(t, new_status) ==
    /\ new_status # status[t]
    /\ ValidateTransition(status, deps, t, new_status).kind # "Invalid"
    /\ status' = [status EXCEPT ![t] = new_status]
    /\ UNCHANGED <<deps, nwrites, One, nops, Bus, Mgr, Sched, Ext>>

-----------------------------------------------------------------------------
(* Specifications *)

\* the dependency lists over `ids` whose edges go from a task to a task
\* with a smaller id: every shape of acyclic list, up to renaming
ForwardEdges(ids) == {e \in ids \X ids : e[2] < e[1]}

\* S1 of the spec: B depends on A, C on B
Chain == {<<t, t - 1>> : t \in 2..NTasks}

\* a request handler that has not been called
NoReq == [op |-> "none", task_id |-> 0, depends_on_task_id |-> 0, pc |-> "idle",
          ret |-> "-"]

\* no position was ever given
NoPosition == <<>>

\* a reorder handler that has not been called
NoReorder == [genre_ids |-> <<>>, index |-> 0, pc |-> "idle", ret |-> "-"]

\* genres get position max + 1 when they are created
InitGenres ==
    /\ genres = [g \in Genres |-> g - 1]
    /\ reorder_req = [h \in Procs |-> NoReorder]

\* a caller that has not run a sync
NoSync == [pc |-> "idle", index |-> 0, existing |-> <<>>, task_id |-> 0,
           items_synced |-> 0, items_created |-> 0, items_updated |-> 0,
           errors |-> 0, ret |-> "-", before |-> <<>>, clean_before |-> FALSE]

\* no project is linked to GitHub
InitGh ==
    /\ items = <<>>
    /\ task_rows = <<>>
    /\ mappings = {}
    /\ sync = [p \in Procs |-> NoSync]

\* a caller that has not called the SyncService
NoService == [pc |-> "idle", operation |-> <<>>, operations |-> <<>>, failed |-> <<>>,
              processed |-> 0, index |-> 0, outcome |-> "-", ret |-> "-"]

\* a SyncService without client and with an empty queue
InitQueue ==
    /\ client = FALSE
    /\ sync_queue = <<>>
    /\ remote = <<>>
    /\ svc = [p \in Procs |-> NoService]
    /\ uuid = 1
    /\ attempts = <<>>
    /\ latest = <<>>

\* a monitor that has not ticked
NoMonitor == [pc |-> "sleep", enabled_links |-> <<>>, index |-> 0, tick |-> 0,
              synced |-> <<>>, errors |-> 0, at_query |-> <<>>, ret |-> "-"]

\* no link and a monitor that has not ticked
InitMon ==
    /\ links = <<>>
    /\ monitor = NoMonitor

\* no dependency request is in flight and no task has a position
InitExt ==
    /\ dag_position = [t \in Tasks |-> NoPosition]
    /\ req = [h \in Procs |-> NoReq]
    /\ written = {}
    /\ InitGenres
    /\ InitGh
    /\ InitQueue
    /\ InitMon

InitOrch ==
    /\ writer = 0
    /\ log = <<>>
    /\ pc = [p \in Procs |-> "idle"]
    /\ call = [p \in Procs |-> NoCall]
    /\ ret = [p \in Procs |-> NoRet]
    /\ nops = 0
    /\ nwrites = 0
    /\ rx = [s \in Subs |-> [open |-> FALSE, next |-> 0, since |-> 0]]
    /\ stream = [s \in Subs |-> <<>>]
    /\ orchestrators = [pr \in Projects |-> 0]
    /\ insts = <<>>
    /\ hnd = [h \in Procs |-> NoHandler]
    /\ removed = {}
    /\ last_plan = NoPlan
    /\ out = NoOut

\* ProjectOrchestrator::new
Init ==
    /\ InitOrch
    /\ InitExt
    /\ state = "Idle"
    /\ max_parallel_tasks = DefaultMaxParallel
    /\ status = [t \in Tasks |-> "Todo"]
    /\ deps = Chain

\* the operations of the orchestrator, called by concurrent request handlers
Lifecycle(p) ==
    \/ Start(p) \/ StartPlan(p)
    \/ Pause(p)
    \/ Resume(p) \/ ResumePlan(p)
    \/ Stop(p) \/ StopIdle(p)

Notifications(p) ==
    \/ OnTaskStartedPlan(p) \/ OnTaskCompletedPlan(p)
    \/ OnTaskFailedPlan(p) \/ OnTaskReviewPlan(p)
    \/ \E t \in Tasks :
          \/ OnTaskStarted(p, t) \/ OnTaskCompleted(p, t)
          \/ OnTaskFailed(p, t) \/ OnTaskReview(p, t)

Next ==
    \E p \in Procs :
       \/ Lifecycle(p)
       \/ GetState(p)
       \/ GetReadyToExecute(p) \/ GetReadyPlan(p)
       \/ Notifications(p)

Spec == Init /\ [][Next]_vars

\* The state machine alone: the handlers of /start, /pause, /resume, /stop and
\* /state, called concurrently
NextLife ==
    \E p \in Procs :
       \/ Lifecycle(p)
       \/ GetState(p)

SpecLife == Init /\ [][NextLife]_vars

\* The event bus: the lifecycle operations emit, the subscribers join and
\* forward at any moment
NextBus ==
    \/ \E p \in Procs :
          \/ Start(p) \/ StartPlan(p)
          \/ Pause(p)
          \/ Stop(p) \/ StopIdle(p)
    \/ \E s \in Subs : Subscribe(s) \/ Recv(s)

SpecBus == Init /\ [][NextBus]_vars

\* The busy channel: subscribers that joined before the first event, one or
\* both of them slow, and more events than the channel holds
NextLag ==
    \/ SendEvent
    \/ \E s \in Subs :
          \/ log = <<>> /\ Subscribe(s)
          \/ Recv(s)

SpecLag == Init /\ [][NextLag]_vars

\* The manager and the handlers of the server that go through it
NextMgr ==
    \E h \in Procs :
       \/ \E kind \in HandlerKinds, pr \in Projects : GetOrCreateRead(h, kind, pr)
       \/ GetOrCreateWrite(h)
       \/ \E pr \in Projects : Remove(h, pr)
       \/ RequestReturns(h)
       \/ WsSubscribe(h)
       \/ WsTurn(h)

SpecMgr == Init /\ [][NextMgr]_vars

\* the steps a handler takes by itself once it was called: the runtime keeps
\* polling a task that can make progress
HandlerProgress(h) ==
    GetOrCreateWrite(h) \/ RequestReturns(h) \/ WsSubscribe(h) \/ WsTurn(h)

SpecMgrFair == SpecMgr /\ \A h \in Procs : WF_vars(HandlerProgress(h))

\* The levels of every task list of up to MaxList tasks with every acyclic
\* dependency list between its tasks
InitLevels ==
    /\ InitOrch
    /\ InitExt
    /\ state = "Idle"
    /\ max_parallel_tasks = DefaultMaxParallel
    /\ \E n \in 1..MaxList :
          /\ status = [t \in 1..n |-> "Todo"]
          /\ deps \in SUBSET ForwardEdges(1..n)

NextLevels == BuildPlan

SpecLevels == InitLevels /\ [][NextLevels]_vars

\* The levels of every dependency list between NTasks tasks, cyclic ones and
\* self-dependencies included
InitCyclic ==
    /\ InitOrch
    /\ InitExt
    /\ state = "Idle"
    /\ max_parallel_tasks = DefaultMaxParallel
    /\ status = [t \in Tasks |-> "Todo"]
    /\ deps \in SUBSET (Tasks \X Tasks)

NextCyclic == BuildPlan

SpecCyclic == InitCyclic /\ [][NextCyclic]_vars

\* The plans of every task list and every acyclic dependency list of NTasks
\* tasks, built again and again from the same rows
InitSched ==
    /\ InitOrch
    /\ InitExt
    /\ state = "Idle"
    /\ max_parallel_tasks = DefaultMaxParallel
    /\ status \in [Tasks -> TaskStatus]
    /\ deps \in SUBSET ForwardEdges(Tasks)

NextSched == BuildPlan

SpecSched == InitSched /\ [][NextSched]_vars

\* One plan of such rows, and the unblocking of every task on it
NextUnblocked ==
    \/ last_plan = NoPlan /\ BuildPlan
    \/ \E t \in Tasks : UnblockedByCompletion(t)

SpecUnblocked == InitSched /\ [][NextUnblocked]_vars

\* The task state machine: every validation, and the status changes that
\* validate_transition does not call Invalid
NextTransitions ==
    \E t \in Tasks, new_status \in TaskStatus :
       \/ ValidateTaskTransition(t, new_status)
       \/ TransitionTask(t, new_status)

SpecTransitions == Init /\ [][NextTransitions]_vars

\* The pure checks of state_machine.rs, applied once to every status
\* assignment and every acyclic dependency set
NextValidate ==
    /\ out = NoOut
    /\ \E t \in Tasks :
          \/ \E new_status \in TaskStatus : ValidateTaskTransition(t, new_status)
          \/ CanStart(t)

SpecValidate == InitSched /\ [][NextValidate]_vars

\* The plan-reading operations on every task list and every acyclic
\* dependency list of NTasks tasks, in every state get_state can return
InitPlan ==
    /\ InitOrch
    /\ InitExt
    /\ state \in {"Idle", "Running", "Paused"}
    /\ max_parallel_tasks \in 0..MaxParallel
    /\ status \in [Tasks -> TaskStatus]
    /\ deps \in SUBSET ForwardEdges(Tasks)

NextPlan ==
    \/ /\ nops = 0
       /\ GetReadyToExecute(1) \/ \E t \in Tasks : OnTaskCompleted(1, t)
    \/ GetReadyPlan(1)
    \/ OnTaskCompletedPlan(1)
    \/ \E t \in Tasks, s \in TaskStatus : WriteStatus(t, s)

SpecPlan == InitPlan /\ [][NextPlan]_vars

-----------------------------------------------------------------------------
(* db/models/task_dependency.rs and server/routes/task_dependencies.rs:     *)
(* the dependency routes.  Every query is awaited on the pool by itself, so *)
(* each query of a handler is one step and other handlers run in between.   *)

\* recalculate_dag_layout: the layout constants
NODE_WIDTH == 220
NODE_HEIGHT == 80
HORIZONTAL_SPACING == 120
VERTICAL_SPACING == 40

\* ids a request can name besides the project's tasks: a task of another
\* project and an id no task has
OtherProjectTask == NTasks + 1
MissingTask == NTasks + 2
RequestIds == Tasks \cup {OtherProjectTask, MissingTask}

\* task.project_id # project.id
OutsideProject(id) == id = OtherProjectTask

\* TaskDependency::exists
Exists(dp, task_id, depends_on_task_id) == <<task_id, depends_on_task_id>> \in dp

\* the recursive part of the CTE: a row of the queue is joined with the
\* table, UNION keeps the rows not seen before and queues them
RECURSIVE Reachable(_, _, _)
Reachable(dp, rows, queue) ==
    IF queue = {} THEN rows
    ELSE LET r == CHOOSE x \in queue : TRUE
             fresh == DepsForTask(dp, r) \ rows
         IN  Reachable(dp, rows \cup fresh, (queue \ {r}) \cup fresh)

\* a check that looks at the rows of depends_on_task_id only
WouldCreateCycleDirect(dp, task_id, depends_on_task_id) ==
    task_id \in DepsForTask(dp, depends_on_task_id)

\* TaskDependency::would_create_cycle
WouldCreateCycle(dp, task_id, depends_on_task_id) ==
    LET seed == DepsForTask(dp, depends_on_task_id)
    IN  task_id \in Reachable(dp, seed, seed)

\* would_create_cycle called on the rows as they are; the query can fail
WouldCreateCycleCall(a, b) ==
    /\ \E val \in {[kind |-> "Ok", cycle |-> WouldCreateCycle(deps, a, b), depends_on |-> b],
                   [kind |-> "Database", cycle |-> FALSE, depends_on |-> b]} :
          out' = [fn |-> "would_create_cycle", task_id |-> a, new_status |-> "-",
                  val |-> val]
    /\ UNCHANGED <<last_plan, One, nops, Repo, Bus, Mgr, Ext>>

\* the tasks that take part in an edge
DagTaskIds(dp) == {e[1] : e \in dp} \cup {e[2] : e \in dp}

\* a level pass that keeps the level a task got first
RECURSIVE KahnLayoutFirstLevel(_, _, _, _)
KahnLayoutFirstLevel(dp, queue, in_degree, levels) ==
    IF queue = <<>> THEN {levels}
    ELSE LET task_id == Head(queue)
             current_level == levels[task_id]
             dependents == DependentsOfTask(dp, task_id)
             new_levels == [t \in DOMAIN levels \cup dependents |->
                              IF t \in DOMAIN levels THEN levels[t]
                              ELSE current_level + 1]
             new_degree == [t \in DOMAIN in_degree |->
                              IF t \in dependents THEN in_degree[t] - 1
                              ELSE in_degree[t]]
             zero == {t \in dependents : new_degree[t] = 0}
         IN  UNION {KahnLayoutFirstLevel(dp, Tail(queue) \o pushed, new_degree, new_levels) :
                       pushed \in Orders(zero)}

\* recalculate_dag_layout, the BFS of lines 352-371: every dependent of the
\* popped task gets at least its level + 1 and joins the queue when its
\* in-degree reaches zero.  The dependents of one task are pushed in the
\* order of the fetched rows, any order here.
RECURSIVE KahnLayout(_, _, _, _)
KahnLayout(dp, queue, in_degree, levels) ==
    IF queue = <<>> THEN {levels}
    ELSE LET task_id == Head(queue)
             current_level == levels[task_id]
             dependents == DependentsOfTask(dp, task_id)
             new_levels == [t \in DOMAIN levels \cup dependents |->
                              IF t \notin dependents THEN levels[t]
                              ELSE IF t \in DOMAIN levels /\ levels[t] >= current_level + 1
                                   THEN levels[t]
                                   ELSE current_level + 1]
             new_degree == [t \in DOMAIN in_degree |->
                              IF t \in dependents THEN in_degree[t] - 1
                              ELSE in_degree[t]]
             zero == {t \in dependents : new_degree[t] = 0}
         IN  UNION {KahnLayout(dp, Tail(queue) \o pushed, new_degree, new_levels) :
                       pushed \in Orders(zero)}

\* recalculate_dag_layout, lines 306-371: the levels; in_degree is walked in
\* HashMap order, so the roots are queued in any order
LayoutLevels(dp) ==
    LET dag_task_ids == DagTaskIds(dp)
        in_degree == [t \in dag_task_ids |-> Cardinality(DepsForTask(dp, t))]
        roots == {t \in dag_task_ids : in_degree[t] = 0}
    IN  UNION {KahnLayout(dp, queue, in_degree, [t \in roots |-> 0]) :
                  queue \in Orders(roots)}

\* recalculate_dag_layout, lines 373-384: `levels` is walked in HashMap order
\* (walk), each task is pushed to the group of its level, and its index in
\* the group is its rank
LayoutPositions(levels, walk) ==
    [t \in DOMAIN levels |->
        LET at == CHOOSE i \in DOMAIN walk : walk[i] = t
            index == Cardinality({i \in 1..(at - 1) : levels[walk[i]] = levels[t]})
        IN  <<levels[t] * (NODE_WIDTH + HORIZONTAL_SPACING),
              index * (NODE_HEIGHT + VERTICAL_SPACING)>>]

\* recalculate_dag_layout, lines 386-392: the tasks of the project whose
\* stored position is not the computed one
NeedsUpdate(computed) ==
    {t \in DOMAIN computed \cap Tasks : dag_position[t] # computed[t]}

\* recalculate_dag_layout: the layouts one run can compute
Layouts(dp) ==
    IF dp = {} THEN {<<>>}
    ELSE UNION {{LayoutPositions(levels, walk) : walk \in Orders(DOMAIN levels)} :
                   levels \in LayoutLevels(dp)}

Answered(h, r) == req' = [req EXCEPT ![h].pc = "done", ![h].ret = r]
Proceed(h, label) == req' = [req EXCEPT ![h].pc = label]

\* the other variables of the model
NotDag == <<One, nops, status, nwrites, Bus, Mgr, Sched, Genre, Gh, Queue, Mon>>

\* a handler is free to take a request
CanRequest(h) == req[h].pc \in {"idle", "done"} /\ nops < MaxOps

\* create_dependency, lines 112-150: the self-reference check and the two
\* task lookups with their project checks
CreateDependency(h, task_id, depends_on_task_id) ==
    /\ CanRequest(h)
    /\ nops' = nops + 1
    /\ LET r == [op |-> "create_dependency", task_id |-> task_id,
                 depends_on_task_id |-> depends_on_task_id, pc |-> "exists", ret |-> "-"]
           refused(e) == req' = [req EXCEPT ![h] = [r EXCEPT !.pc = "done", !.ret = e]]
       IN  IF task_id = depends_on_task_id THEN refused("BadRequest")
           ELSE IF task_id = MissingTask THEN refused("NotFound")
           ELSE IF OutsideProject(task_id) THEN refused("BadRequest")
           ELSE IF depends_on_task_id = MissingTask THEN refused("NotFound")
           ELSE IF OutsideProject(depends_on_task_id) THEN refused("BadRequest")
           ELSE req' = [req EXCEPT ![h] = r]
    /\ UNCHANGED <<One, status, deps, nwrites, Bus, Mgr, Sched, dag_position, written,
                   Genre, Gh, Queue, Mon>>

\* create_dependency, lines 152-157: the duplicate check
CreateExists(h) ==
    /\ req[h].pc = "exists"
    /\ IF Exists(deps, req[h].task_id, req[h].depends_on_task_id)
       THEN Answered(h, "Conflict")
       ELSE Proceed(h, "cycle")
    /\ UNCHANGED <<NotDag, deps, dag_position, written>>

\* a create_dependency without the cycle check
CreateCycleUnchecked(h) ==
    /\ req[h].pc = "cycle"
    /\ Proceed(h, "create")
    /\ UNCHANGED <<NotDag, deps, dag_position, written>>

\* create_dependency, lines 159-165: the cycle check
CreateCycle(h) ==
    /\ req[h].pc = "cycle"
    /\ IF WouldCreateCycle(deps, req[h].task_id, req[h].depends_on_task_id)
       THEN Answered(h, "Conflict")
       ELSE Proceed(h, "create")
    /\ UNCHANGED <<NotDag, deps, dag_position, written>>

\* create_dependency, line 175: TaskDependency::create.  The pair is unique
\* in the table, so the INSERT of a pair that is there fails.
CreateInsert(h) ==
    /\ req[h].pc = "create"
    /\ LET edge == <<req[h].task_id, req[h].depends_on_task_id>>
       IN  IF edge \in deps
           THEN /\ Answered(h, "Database")
                /\ UNCHANGED deps
           ELSE /\ deps' = deps \cup {edge}
                /\ Proceed(h, "layout")
    /\ UNCHANGED <<NotDag, dag_position, written>>

\* create_dependency, line 178: recalculate_dag_layout, then the answer.  A
\* query of the layout can fail: the reads before anything is written, an
\* update after some of the updates were made.
CreateLayout(h) ==
    /\ req[h].pc = "layout"
    /\ \E computed \in Layouts(deps) :
          \/ /\ written' = NeedsUpdate(computed)
             /\ dag_position' = [t \in Tasks |->
                                   IF t \in NeedsUpdate(computed) THEN computed[t]
                                   ELSE dag_position[t]]
             /\ Answered(h, "Ok")
          \/ \E made \in SUBSET NeedsUpdate(computed) :
                /\ made # NeedsUpdate(computed) \/ made = {}
                /\ written' = made
                /\ dag_position' = [t \in Tasks |->
                                      IF t \in made THEN computed[t] ELSE dag_position[t]]
                /\ Answered(h, "Database")
    /\ UNCHANGED <<NotDag, deps>>

\* delete_dependency: the row is looked up and deleted; a row that is gone
\* is answered NotFound
DeleteDependency(h, edge) ==
    /\ CanRequest(h)
    /\ nops' = nops + 1
    /\ LET r == [op |-> "delete_dependency", task_id |-> edge[1],
                 depends_on_task_id |-> edge[2], pc |-> "done", ret |-> "-"]
       IN  IF edge \in deps
           THEN /\ deps' = deps \ {edge}
                /\ req' = [req EXCEPT ![h] = [r EXCEPT !.ret = "Ok"]]
           ELSE /\ UNCHANGED deps
                /\ req' = [req EXCEPT ![h] = [r EXCEPT !.ret = "NotFound"]]
    /\ UNCHANGED <<One, status, nwrites, Bus, Mgr, Sched, dag_position, written,
                   Genre, Gh, Queue, Mon>>

\* positions tasks can have before the first edge of the project is made
PriorPositions == {NoPosition, <<0, 0>>}

InitDag ==
    /\ InitOrch
    /\ state = "Idle"
    /\ max_parallel_tasks = DefaultMaxParallel
    /\ status = [t \in Tasks |-> "Todo"]
    /\ deps = {}
    /\ dag_position \in [Tasks -> PriorPositions]
    /\ req = [h \in Procs |-> NoReq]
    /\ written = {}
    /\ InitGenres
    /\ InitGh
    /\ InitQueue
    /\ InitMon

\* the steps of a handler that is serving a request
RequestStep(h) ==
    \/ CreateExists(h)
    \/ CreateCycle(h)
    \/ CreateInsert(h)
    \/ CreateLayout(h)

\* requests served one after another, by one handler
NextDag ==
    \/ \E a, b \in RequestIds : CreateDependency(1, a, b)
    \/ \E edge \in Tasks \X Tasks : DeleteDependency(1, edge)
    \/ RequestStep(1)

SpecDag == InitDag /\ [][NextDag]_vars

\* requests served concurrently
NextDagRace ==
    \E h \in Procs :
       \/ \E a, b \in Tasks : CreateDependency(h, a, b)
       \/ \E edge \in Tasks \X Tasks : DeleteDependency(h, edge)
       \/ RequestStep(h)

InitDagRace == InitDag /\ dag_position = [t \in Tasks |-> NoPosition]

SpecDagRace == InitDagRace /\ [][NextDagRace]_vars

\* would_create_cycle applied once to every edge set
NextCycleCheck == out = NoOut /\ \E a, b \in Tasks : WouldCreateCycleCall(a, b)

SpecCycleCheck == InitCyclic /\ [][NextCycleCheck]_vars

-----------------------------------------------------------------------------
(* db/models/dependency_genre.rs and server/routes/dependency_genres.rs:    *)
(* reorder.  The UPDATEs run on the pool one by one, outside a transaction. *)

\* ids a reorder request can name besides the project's genres
OtherProjectGenre == NGenres + 1
MissingGenre == NGenres + 2

\* the lists the requests carry: every order of the project's genres, and a
\* list the route refuses
ReorderLists == Orders(Genres) \cup {<<1, OtherProjectGenre>>, <<MissingGenre>>}

\* the other variables of the model
NotGenre == <<One, status, deps, nwrites, Bus, Mgr, Sched, Dag, Gh, Queue, Mon>>

\* reorder_genres, lines 207-218: every id is looked up, the first one that
\* is missing or belongs to another project ends the request
ReorderGenres(h, genre_ids) ==
    /\ reorder_req[h].pc \in {"idle", "done"} /\ nops < MaxOps
    /\ nops' = nops + 1
    /\ LET bad == {i \in DOMAIN genre_ids : genre_ids[i] \notin Genres}
           first == CHOOSE i \in bad : \A j \in bad : i <= j
           r == [genre_ids |-> genre_ids, index |-> 1, pc |-> "update", ret |-> "-"]
       IN  IF bad = {} THEN reorder_req' = [reorder_req EXCEPT ![h] = r]
           ELSE reorder_req' = [reorder_req EXCEPT ![h] =
                   [r EXCEPT !.pc = "done",
                             !.ret = IF genre_ids[first] = MissingGenre
                                     THEN "NotFound" ELSE "BadRequest"]]
    /\ UNCHANGED <<NotGenre, genres>>

\* DependencyGenre::reorder, lines 224-236: one UPDATE of the loop; it sets
\* the position of the id to its index, or fails and ends the request
ReorderUpdate(h) ==
    /\ reorder_req[h].pc = "update"
    /\ reorder_req[h].index <= Len(reorder_req[h].genre_ids)
    /\ \/ /\ genres' = [genres EXCEPT ![reorder_req[h].genre_ids[reorder_req[h].index]] =
                                         reorder_req[h].index - 1]
          /\ reorder_req' = [reorder_req EXCEPT ![h].index = @ + 1]
       \/ /\ reorder_req' = [reorder_req EXCEPT ![h].pc = "done", ![h].ret = "Database"]
          /\ UNCHANGED genres
    /\ UNCHANGED <<NotGenre, nops>>

\* DependencyGenre::reorder, lines 238-245: the updated list is read and
\* returned
ReorderReturn(h) ==
    /\ reorder_req[h].pc = "update"
    /\ reorder_req[h].index > Len(reorder_req[h].genre_ids)
    /\ \E r \in {"Ok", "Database"} :
          reorder_req' = [reorder_req EXCEPT ![h].pc = "done", ![h].ret = r]
    /\ UNCHANGED <<NotGenre, nops, genres>>

NextGenres ==
    \E h \in Procs :
       \/ \E genre_ids \in ReorderLists : ReorderGenres(h, genre_ids)
       \/ ReorderUpdate(h)
       \/ ReorderReturn(h)

SpecGenres == Init /\ [][NextGenres]_vars

-----------------------------------------------------------------------------
(* services/github/sync.rs: sync_from_github.  Every query is awaited on    *)
(* the pool by itself; a run is a sequence of steps, and the writers of the *)
(* tasks table run in between.                                              *)

\* issues of the linked GitHub project
Issues == 1..NIssues

\* SyncDirection
SyncDirection == {"Bidirectional", "GithubToVibe", "VibeToGithub"}

\* a project item without issue content (a draft)
Draft == [issue |-> FALSE, title |-> "-", body |-> "-", github_status |-> "-"]

\* what the issue of a project item can hold: title, body, and the Status
\* field of the project
IssueContents ==
    {[issue |-> TRUE, title |-> "a", body |-> "-", github_status |-> "Todo"],
     [issue |-> TRUE, title |-> "b", body |-> "x", github_status |-> "Done"]}

\* a row of the tasks table; github_status is the task_properties row that
\* holds the remote status
TaskRow(title, description, st, github_status) ==
    [title |-> title, description |-> description, status |-> st,
     github_status |-> github_status]

\* a row of github_issue_mappings
Mapping(issue, task_id, direction) ==
    [github_issue_number |-> issue, task_id |-> task_id, sync_direction |-> direction]

\* GitHubIssueMapping::find_by_github_issue: the rows of the issue
FindByGithubIssue(issue) == {m \in mappings : m.github_issue_number = issue}

\* the other variables of the model
NotGh == <<One, status, deps, Bus, Mgr, Sched, Dag, Genre, Queue, Mon>>

\* a run that skips no mapped item
SkipsItemNever(mapping) == FALSE

\* sync_item_from_github, line 209: the direction that is not synced to the
\* local task
SkipsItem(mapping) == mapping.sync_direction = "VibeToGithub"

\* sync_from_github, lines 140-153: the project items are fetched, which can
\* fail.  `before` and `clean_before` are bookkeeping of the model: the rows
\* at the call, and whether the run before this one returned success
\* without an item error.
SyncFromGithub(p) ==
    /\ sync[p].pc \in {"idle", "done"} /\ nops < MaxRuns
    /\ nops' = nops + 1
    /\ \/ sync' = [sync EXCEPT ![p] =
                     [NoSync EXCEPT !.pc = "item", !.index = 1,
                                    !.before = <<task_rows, mappings>>,
                                    !.clean_before = (sync[p].ret = "Ok" /\ sync[p].errors = 0)]]
       \/ sync' = [sync EXCEPT ![p] = [NoSync EXCEPT !.pc = "done", !.ret = "Err"]]
    /\ UNCHANGED <<NotGh, nwrites, items, task_rows, mappings>>

\* sync_from_github, lines 155-163: Ok(created) of the item
ItemSynced(p, created) ==
    sync' = [sync EXCEPT ![p].pc = "item", ![p].index = @ + 1,
                         ![p].items_created = IF created THEN @ + 1 ELSE @,
                         ![p].items_updated = IF created THEN @ ELSE @ + 1,
                         ![p].items_synced = @ + 1]

\* sync_from_github, lines 164-173: Err(e) of the item
ItemFailed(p) ==
    sync' = [sync EXCEPT ![p].pc = "item", ![p].index = @ + 1, ![p].errors = @ + 1]

\* sync_item_from_github, lines 198-216 and 232-233: the item without an
\* issue, the mapping lookup, the direction check
SyncItem(p) ==
    /\ sync[p].pc = "item"
    /\ sync[p].index <= Len(items)
    /\ LET item == items[sync[p].index]
           found == FindByGithubIssue(sync[p].index)
       IN  IF ~item.issue THEN ItemSynced(p, FALSE)
           ELSE \/ ItemFailed(p)
                \/ /\ found = {}
                   /\ sync' = [sync EXCEPT ![p].pc = "create_task"]
                \/ \E mapping \in found :
                      IF SkipsItem(mapping) THEN ItemSynced(p, FALSE)
                      ELSE sync' = [sync EXCEPT ![p].pc = "find_task",
                                                ![p].task_id = mapping.task_id]
    /\ UNCHANGED <<NotGh, nops, nwrites, items, task_rows, mappings>>

\* update_task_from_issue, lines 303-305: the task is read
FindTask(p) ==
    /\ sync[p].pc = "find_task"
    /\ \/ sync' = [sync EXCEPT ![p].pc = "update_task",
                               ![p].existing = task_rows[sync[p].task_id]]
       \/ ItemFailed(p)
    /\ UNCHANGED <<NotGh, nops, nwrites, items, task_rows, mappings>>

\* update_task_from_issue, lines 309-319: Task::update with the title and
\* the body of the issue and the status that was read
UpdateTask(p) ==
    /\ sync[p].pc = "update_task"
    /\ \/ /\ task_rows' = [task_rows EXCEPT ![sync[p].task_id] =
                             TaskRow(items[sync[p].index].title, items[sync[p].index].body,
                                     sync[p].existing.status, @.github_status)]
          /\ sync' = [sync EXCEPT ![p].pc = "update_properties"]
       \/ /\ ItemFailed(p)
          /\ UNCHANGED task_rows
    /\ UNCHANGED <<NotGh, nops, nwrites, items, mappings>>

\* update_task_from_issue, line 322, and sync_item_from_github, lines 222-230:
\* the properties, the remote status among them, and the sync timestamps
UpdateProperties(p) ==
    /\ sync[p].pc = "update_properties"
    /\ \/ /\ task_rows' = [task_rows EXCEPT ![sync[p].task_id].github_status =
                                                items[sync[p].index].github_status]
          /\ ItemSynced(p, FALSE)
       \/ /\ ItemFailed(p)
          /\ UNCHANGED task_rows
    /\ UNCHANGED <<NotGh, nops, nwrites, items, mappings>>

\* create_task_from_issue, lines 262-280: Task::create, status Todo
CreateTask(p) ==
    /\ sync[p].pc = "create_task"
    /\ \/ /\ task_rows' = Append(task_rows,
                                 TaskRow(items[sync[p].index].title,
                                         items[sync[p].index].body, "Todo", "-"))
          /\ sync' = [sync EXCEPT ![p].pc = "create_properties",
                                  ![p].task_id = Len(task_rows) + 1]
       \/ /\ ItemFailed(p)
          /\ UNCHANGED task_rows
    /\ UNCHANGED <<NotGh, nops, nwrites, items, mappings>>

\* create_task_from_issue, line 283: the properties of the new task
CreateProperties(p) ==
    /\ sync[p].pc = "create_properties"
    /\ \/ /\ task_rows' = [task_rows EXCEPT ![sync[p].task_id].github_status =
                                                items[sync[p].index].github_status]
          /\ sync' = [sync EXCEPT ![p].pc = "create_mapping"]
       \/ /\ ItemFailed(p)
          /\ UNCHANGED task_rows
    /\ UNCHANGED <<NotGh, nops, nwrites, items, mappings>>

\* sync_item_from_github, lines 237-248: the mapping of the new task
CreateMapping(p) ==
    /\ sync[p].pc = "create_mapping"
    /\ \/ /\ mappings' = mappings \cup
                            {Mapping(sync[p].index, sync[p].task_id, "Bidirectional")}
          /\ ItemSynced(p, TRUE)
       \/ /\ ItemFailed(p)
          /\ UNCHANGED mappings
    /\ UNCHANGED <<NotGh, nops, nwrites, items, task_rows>>

\* the link the project items belong to
SyncedLink == 1

\* CURRENT_TIMESTAMP of a write to the links, in seconds: not before any time
\* written earlier, and the same second or a later one; 0 stands for NULL
Now ==
    LET newest == MaxOf({1} \cup {links[l].last_sync_at : l \in DOMAIN links})
    IN  {newest, newest + 1}

\* GitHubProjectLink::update_last_sync_at
UpdateLastSyncAt(l) == \E t \in Now : links' = [links EXCEPT ![l].last_sync_at = t]

\* a run that returns success whether or not the link was written
SyncFinishAlwaysOk(p) ==
    /\ sync[p].pc = "item"
    /\ sync[p].index > Len(items)
    /\ sync' = [sync EXCEPT ![p].pc = "done", ![p].ret = "Ok"]
    /\ UpdateLastSyncAt(SyncedLink) \/ UNCHANGED links
    /\ UNCHANGED <<One, status, deps, Bus, Mgr, Sched, Dag, Genre, Queue, monitor,
                   nops, nwrites, items, task_rows, mappings>>

\* sync_from_github, lines 176-187: last_sync_at is written and the result
\* is returned, or the write fails and its error is returned
SyncFinish(p) ==
    /\ sync[p].pc = "item"
    /\ sync[p].index > Len(items)
    /\ \/ /\ UpdateLastSyncAt(SyncedLink)
          /\ sync' = [sync EXCEPT ![p].pc = "done", ![p].ret = "Ok"]
       \/ /\ UNCHANGED links
          /\ sync' = [sync EXCEPT ![p].pc = "done", ![p].ret = "Err"]
    /\ UNCHANGED <<One, status, deps, Bus, Mgr, Sched, Dag, Genre, Queue, monitor,
                   nops, nwrites, items, task_rows, mappings>>

\* a local writer (the agent workflow, a user) changes the status of a task
LocalStatusWrite(t, s) ==
    /\ nwrites < MaxWrites
    /\ t \in DOMAIN task_rows
    /\ task_rows[t].status # s
    /\ task_rows' = [task_rows EXCEPT ![t].status = s]
    /\ nwrites' = nwrites + 1
    /\ UNCHANGED <<NotGh, nops, items, mappings, sync>>

\* a linked project: the items of the GitHub project, and either no task yet
\* or one local task that is mapped to issue 1 (S6 of the spec)
InitSync ==
    /\ InitOrch
    /\ state = "Idle"
    /\ max_parallel_tasks = DefaultMaxParallel
    /\ status = [t \in Tasks |-> "Todo"]
    /\ deps = {}
    /\ dag_position = [t \in Tasks |-> NoPosition]
    /\ req = [h \in Procs |-> NoReq]
    /\ written = {}
    /\ InitGenres
    /\ InitQueue
    /\ monitor = NoMonitor
    /\ links = <<[sync_enabled |-> TRUE, last_sync_at |-> 0]>>
    /\ items \in [Issues -> IssueContents \cup {Draft}]
    /\ sync = [p \in Procs |-> NoSync]
    /\ \/ task_rows = <<>> /\ mappings = {}
       \/ /\ task_rows = <<TaskRow("local", "-", "InProgress", "-")>>
          /\ \E direction \in SyncDirection : mappings = {Mapping(1, 1, direction)}

\* the steps of a run
SyncStep(p) ==
    \/ SyncItem(p)
    \/ FindTask(p)
    \/ UpdateTask(p)
    \/ UpdateProperties(p)
    \/ CreateTask(p)
    \/ CreateProperties(p)
    \/ CreateMapping(p)
    \/ SyncFinish(p)

\* runs of one caller, one after another
NextResync ==
    \/ SyncFromGithub(1)
    \/ SyncStep(1)

SpecResync == InitSync /\ [][NextResync]_vars

\* the same with a local writer of the statuses
NextSync ==
    \/ NextResync
    \/ \E t \in 1..(NIssues + 1), s \in TaskStatus : LocalStatusWrite(t, s)

SpecSync == InitSync /\ [][NextSync]_vars

-----------------------------------------------------------------------------
(* services/supabase/sync.rs: SyncService.  The queue is behind a RwLock;   *)
(* every remote call and every acquisition of the lock is awaited, so a     *)
(* call is a sequence of steps and the calls of other callers run between   *)
(* them.                                                                    *)

\* MAX_QUEUE_SIZE
MAX_QUEUE_SIZE == 100

\* the tasks the callers push: task 1 has a row in the remote table, task 2
\* has none
QueueTasks == {1, 2}
RemoteTasks == {1}

\* the statuses, assignees and branch names the callers pass
StatusInputs == {"InProgress", "Done"}
AssigneeInputs == {"alice"}
BranchInputs == {"b1"}

\* a row of the remote tasks table
RemoteRow == [status |-> "Todo", assigned_to |-> "-", branch_name |-> "-"]

\* SyncOperationType
UpdateTaskStatus(task_id, st) ==
    [type |-> "UpdateTaskStatus", task_id |-> task_id, value |-> st]
UpdateTaskAssignment(task_id, assigned_to) ==
    [type |-> "UpdateTaskAssignment", task_id |-> task_id, value |-> assigned_to]
UpdateTaskBranch(task_id, branch_name) ==
    [type |-> "UpdateTaskBranch", task_id |-> task_id, value |-> branch_name]

\* SyncOperation; the id stands for Uuid::new_v4() and, being handed out in
\* creation order, for created_at as well
SyncOperation(id, operation_type) ==
    [id |-> id, operation_type |-> operation_type, retry_count |-> 0]

\* the other variables of the model
NotQueue == <<One, nops, status, deps, nwrites, Bus, Mgr, Sched, Dag, Genre, Gh, Mon>>

\* a caller is free to call the service
CanSync(p) == svc[p].pc \in {"idle", "done"}

\* sync_task_status, sync_task_assignment, sync_task_branch, lines 63-106,
\* and execute_or_queue, line 110: the operation is made with retry_count 0
\* and goes to the remote call if there is a client, to the queue if not
Submit(p, operation_type) ==
    /\ CanSync(p) /\ uuid <= MaxOps
    /\ uuid' = uuid + 1
    /\ attempts' = [id \in DOMAIN attempts \cup {uuid} |->
                       IF id = uuid THEN 0 ELSE attempts[id]]
    /\ latest' = IF operation_type.type = "UpdateTaskStatus"
                 THEN [latest EXCEPT ![operation_type.task_id].submitted = uuid,
                                     ![operation_type.task_id].status = operation_type.value]
                 ELSE latest
    /\ svc' = [svc EXCEPT ![p] =
                 [NoService EXCEPT !.pc = IF client THEN "execute" ELSE "queue",
                                   !.operation = SyncOperation(uuid, operation_type)]]
    /\ UNCHANGED <<NotQueue, client, sync_queue, remote>>

SyncTaskStatus(p, task_id, st) == Submit(p, UpdateTaskStatus(task_id, st))

SyncTaskAssignment(p, task_id, assigned_to) ==
    Submit(p, UpdateTaskAssignment(task_id, assigned_to))

SyncTaskBranch(p, task_id, branch_name) ==
    Submit(p, UpdateTaskBranch(task_id, branch_name))

\* SupabaseClient::update, client.rs lines 123-154: what a PATCH can come to.
\* The request is not sent or is refused; it is applied and its row comes
\* back; it is applied and the response cannot be read.  A PATCH for an id
\* without a row changes nothing and returns no item, which is an error.
UpdateOutcomes(operation) ==
    IF operation.operation_type.task_id \in DOMAIN remote
    THEN {"Ok", "NotSent", "Unread"}
    ELSE {"NoItem"}

\* the remote table after a PATCH with the outcome
Applied(operation, outcome) ==
    LET ot == operation.operation_type
    IN  IF outcome \in {"Ok", "Unread"}
        THEN CASE ot.type = "UpdateTaskStatus" ->
                     [remote EXCEPT ![ot.task_id].status = ot.value]
               [] ot.type = "UpdateTaskAssignment" ->
                     [remote EXCEPT ![ot.task_id].assigned_to = ot.value]
               [] ot.type = "UpdateTaskBranch" ->
                     [remote EXCEPT ![ot.task_id].branch_name = ot.value]
        ELSE remote

\* execute_operation, lines 134-178: one PATCH of the task; the bookkeeping
\* counts the call and notes the status operation that was applied
ExecuteOperation(operation, outcome) ==
    /\ remote' = Applied(operation, outcome)
    /\ attempts' = [attempts EXCEPT ![operation.id] = @ + 1]
    /\ latest' = IF /\ outcome \in {"Ok", "Unread"}
                    /\ operation.operation_type.type = "UpdateTaskStatus"
                 THEN [latest EXCEPT ![operation.operation_type.task_id].applied = operation.id]
                 ELSE latest

\* a queue_operation that drops the operation when the queue is full
QueueOperationDropNew(q, operation) ==
    IF Len(q) >= MAX_QUEUE_SIZE THEN q ELSE Append(q, operation)

\* queue_operation, lines 181-192: under the write guard, the oldest
\* operations are popped until there is room, then the operation is pushed
QueueOperation(q, operation) ==
    LET excess == IF Len(q) >= MAX_QUEUE_SIZE THEN Len(q) - MAX_QUEUE_SIZE + 1 ELSE 0
    IN  Append(SubSeq(q, excess + 1, Len(q)), operation)

\* an execute_or_queue that queues whatever the remote call returned
ExecuteAlwaysQueue(p) ==
    /\ svc[p].pc = "execute"
    /\ \E outcome \in UpdateOutcomes(svc[p].operation) :
          /\ ExecuteOperation(svc[p].operation, outcome)
          /\ svc' = [svc EXCEPT ![p].pc = "queue", ![p].outcome = outcome]
    /\ UNCHANGED <<NotQueue, client, sync_queue, uuid>>

\* execute_or_queue, lines 111-125: the remote call; Ok returns, Err goes on
\* to queue_operation (`outcome` notes what the call came to)
Execute(p) ==
    /\ svc[p].pc = "execute"
    /\ \E outcome \in UpdateOutcomes(svc[p].operation) :
          /\ ExecuteOperation(svc[p].operation, outcome)
          /\ svc' = IF outcome = "Ok"
                    THEN [svc EXCEPT ![p].pc = "done", ![p].ret = "Ok", ![p].outcome = outcome]
                    ELSE [svc EXCEPT ![p].pc = "queue", ![p].outcome = outcome]
    /\ UNCHANGED <<NotQueue, client, sync_queue, uuid>>

\* execute_or_queue, lines 122-123 and 128-129: queue_operation, then Ok(())
Enqueue(p) ==
    /\ svc[p].pc = "queue"
    /\ sync_queue' = QueueOperation(sync_queue, svc[p].operation)
    /\ svc' = [svc EXCEPT ![p].pc = "done", ![p].ret = "Ok"]
    /\ UNCHANGED <<NotQueue, client, remote, uuid, attempts, latest>>

\* process_queue, lines 195-207: without client Ok(0); with one, the queue
\* is drained under the write guard
ProcessQueue(p) ==
    /\ CanSync(p)
    /\ IF client
       THEN /\ svc' = [svc EXCEPT ![p] = [NoService EXCEPT !.pc = "process", !.index = 1,
                                                           !.operations = sync_queue]]
            /\ sync_queue' = <<>>
       ELSE /\ svc' = [svc EXCEPT ![p] = [NoService EXCEPT !.pc = "done", !.ret = "Ok"]]
            /\ UNCHANGED sync_queue
    /\ UNCHANGED <<NotQueue, client, remote, uuid, attempts, latest>>

\* process_queue, line 217: the retry_count at which an operation is dropped
RetryLimit == 3

\* process_queue, lines 209-235: the next drained operation is executed; a
\* failed one gets retry_count + 1 and is kept for the queue while that is
\* below the limit
ProcessOperationWithin(p, limit) ==
    /\ svc[p].pc = "process"
    /\ svc[p].index <= Len(svc[p].operations)
    /\ LET operation == svc[p].operations[svc[p].index]
           retried == [operation EXCEPT !.retry_count = @ + 1]
       IN  \E outcome \in UpdateOutcomes(operation) :
              /\ ExecuteOperation(operation, outcome)
              /\ svc' = [svc EXCEPT
                    ![p].index = @ + 1,
                    ![p].outcome = outcome,
                    ![p].processed = IF outcome = "Ok" THEN @ + 1 ELSE @,
                    ![p].failed = IF outcome # "Ok" /\ retried.retry_count < limit
                                  THEN Append(@, retried) ELSE @]
    /\ UNCHANGED <<NotQueue, client, sync_queue, uuid>>

\* a process_queue that keeps an operation for one more run
ProcessOperationLenient(p) == ProcessOperationWithin(p, RetryLimit + 1)

\* process_queue, line 217: `operation.retry_count < 3`
ProcessOperation(p) == ProcessOperationWithin(p, RetryLimit)

\* process_queue, lines 237-245: the failed operations are pushed back under
\* the write guard, and Ok(processed)
Requeue(p) ==
    /\ svc[p].pc = "process"
    /\ svc[p].index > Len(svc[p].operations)
    /\ sync_queue' = sync_queue \o svc[p].failed
    /\ svc' = [svc EXCEPT ![p].pc = "done", ![p].ret = "Ok"]
    /\ UNCHANGED <<NotQueue, client, remote, uuid, attempts, latest>>

\* no status operation was submitted or applied for the task
NoLatest == [submitted |-> 0, status |-> "-", applied |-> 0]

\* a new service, with or without client, and the remote table
InitService ==
    /\ InitOrch
    /\ state = "Idle"
    /\ max_parallel_tasks = DefaultMaxParallel
    /\ status = [t \in Tasks |-> "Todo"]
    /\ deps = {}
    /\ dag_position = [t \in Tasks |-> NoPosition]
    /\ req = [h \in Procs |-> NoReq]
    /\ written = {}
    /\ InitGenres
    /\ InitGh
    /\ InitMon
    /\ client \in BOOLEAN
    /\ sync_queue = <<>>
    /\ remote = [t \in RemoteTasks |-> RemoteRow]
    /\ svc = [p \in Procs |-> NoService]
    /\ uuid = 1
    /\ attempts = <<>>
    /\ latest = [t \in QueueTasks |-> NoLatest]

\* the steps of a call
ServiceStep(p) ==
    \/ Execute(p)
    \/ Enqueue(p)
    \/ ProcessOperation(p)
    \/ Requeue(p)

\* one service: caller 1 pushes the changes of tasks, caller 2 is the
\* worker that processes the queue
NextService ==
    \/ \E t \in QueueTasks, st \in StatusInputs : SyncTaskStatus(1, t, st)
    \/ \E t \in RemoteTasks, a \in AssigneeInputs : SyncTaskAssignment(1, t, a)
    \/ \E t \in RemoteTasks, b \in BranchInputs : SyncTaskBranch(1, t, b)
    \/ ProcessQueue(2)
    \/ \E p \in Procs : ServiceStep(p)

SpecService == InitService /\ [][NextService]_vars

\* a service with a client whose queue was filled by status changes of the
\* task without remote row, each attempted once when it was submitted; the
\* operations made before have the ids below 1
InitFullService ==
    /\ InitOrch
    /\ state = "Idle"
    /\ max_parallel_tasks = DefaultMaxParallel
    /\ status = [t \in Tasks |-> "Todo"]
    /\ deps = {}
    /\ dag_position = [t \in Tasks |-> NoPosition]
    /\ req = [h \in Procs |-> NoReq]
    /\ written = {}
    /\ InitGenres
    /\ InitGh
    /\ InitMon
    /\ client = TRUE
    /\ sync_queue = [i \in 1..MAX_QUEUE_SIZE |->
                        SyncOperation(i - MAX_QUEUE_SIZE, UpdateTaskStatus(2, "InProgress"))]
    /\ attempts = [id \in (1 - MAX_QUEUE_SIZE)..0 |-> 1]
    /\ remote = [t \in RemoteTasks |-> RemoteRow]
    /\ svc = [p \in Procs |-> NoService]
    /\ uuid = 1
    /\ latest = [t \in QueueTasks |->
                    IF t = 2 THEN [submitted |-> 0, status |-> "InProgress", applied |-> 0]
                    ELSE NoLatest]

\* the service with the full queue: caller 1 pushes status changes while
\* caller 2 processes the queue
NextFullService ==
    \/ \E t \in QueueTasks : SyncTaskStatus(1, t, "Done")
    \/ ProcessQueue(2)
    \/ \E p \in Procs : ServiceStep(p)

SpecFullService == InitFullService /\ [][NextFullService]_vars

\* the same service with a client, pushing status changes only
InitStatusService == InitService /\ client

NextStatusService ==
    \/ \E t \in QueueTasks, st \in StatusInputs : SyncTaskStatus(1, t, st)
    \/ ProcessQueue(2)
    \/ \E p \in Procs : ServiceStep(p)

SpecStatusService == InitStatusService /\ [][NextStatusService]_vars

\* the worker keeps calling process_queue, and every call that was started
\* runs to its end
SpecStatusServiceFair ==
    /\ SpecStatusService
    /\ WF_vars(ProcessQueue(2))
    /\ \A p \in Procs : WF_vars(ServiceStep(p))

-----------------------------------------------------------------------------
(* services/github/monitor.rs: GitHubSyncMonitor, one spawned task that     *)
(* loops over interval ticks; the routes of the server write the links      *)
(* meanwhile.                                                               *)

\* the links of the table
Links == 1..NLinks

\* the other variables of the model
NotMon == <<One, nops, status, deps, Bus, Mgr, Sched, Dag, Genre, Gh, Queue>>

\* ORDER BY last_sync_at ASC NULLS FIRST, over the rows of a table
ByLastSyncAt(order, rows) ==
    \A i, j \in DOMAIN order :
       i < j => rows[order[i]].last_sync_at <= rows[order[j]].last_sync_at

\* a find_all_enabled without ORDER BY: the enabled links in any order
FindAllEnabledUnordered == Orders({l \in DOMAIN links : links[l].sync_enabled})

\* GitHubProjectLink::find_all_enabled, lines 181-201: the rows the query can
\* return; links with the same last_sync_at come in either order
FindAllEnabled ==
    {order \in Orders({l \in DOMAIN links : links[l].sync_enabled}) :
        ByLastSyncAt(order, links)}

\* start, lines 47-62: without the GitHub CLI the monitor returns at once
MonitorStart ==
    /\ monitor.pc = "new"
    /\ \E next \in {"sleep", "off"} : monitor' = [monitor EXCEPT !.pc = next]
    /\ UNCHANGED <<NotMon, nwrites, links>>

\* start, lines 64-68, and sync_all_enabled_links, lines 74-81: a tick; the
\* query fails (the error is logged and the loop goes on), finds nothing, or
\* gives the links to walk.  `at_query` and `tick` are bookkeeping.
MonitorTick ==
    /\ monitor.pc = "sleep"
    /\ monitor.tick < MaxTicks
    /\ \/ monitor' = [monitor EXCEPT !.tick = @ + 1, !.ret = "Err", !.enabled_links = <<>>,
                                     !.index = 0, !.synced = <<>>, !.errors = 0,
                                     !.at_query = links]
       \/ \E order \in FindAllEnabled :
             monitor' = [monitor EXCEPT !.tick = @ + 1, !.enabled_links = order,
                                        !.index = 1, !.synced = <<>>, !.errors = 0,
                                        !.at_query = links,
                                        !.ret = IF order = <<>> THEN "Ok" ELSE "-",
                                        !.pc = IF order = <<>> THEN "sleep" ELSE "links"]
    /\ UNCHANGED <<NotMon, nwrites, links>>

\* sync_all_enabled_links, lines 83-84, and sync_link, lines 102-105: the
\* next link is handed to sync_from_github
SyncLinkCall ==
    /\ monitor.pc = "links"
    /\ monitor' = [monitor EXCEPT !.pc = "sync_link",
                                  !.synced = Append(@, monitor.enabled_links[monitor.index])]
    /\ UNCHANGED <<NotMon, nwrites, links>>

\* sync_link, lines 105-125, and the loop, lines 84-92: sync_from_github
\* returns, having written last_sync_at if it returns Ok; an error is
\* logged; after the last link the tick returns Ok(())
SyncLinkReturn ==
    /\ monitor.pc = "sync_link"
    /\ LET last == monitor.index = Len(monitor.enabled_links)
           next == [monitor EXCEPT !.index = @ + 1,
                                   !.pc = IF last THEN "sleep" ELSE "links",
                                   !.ret = IF last THEN "Ok" ELSE "-"]
       IN  \/ /\ UpdateLastSyncAt(monitor.enabled_links[monitor.index])
              /\ monitor' = next
           \/ /\ UNCHANGED links
              /\ monitor' = [next EXCEPT !.errors = @ + 1]
    /\ UNCHANGED <<NotMon, nwrites>>

\* toggle_github_link_sync, routes/github.rs lines 182-207
ToggleGithubLinkSync(l) ==
    /\ nwrites < MaxWrites
    /\ nwrites' = nwrites + 1
    /\ links' = [links EXCEPT ![l].sync_enabled = ~@]
    /\ UNCHANGED <<NotMon, monitor>>

\* sync_github_link, routes/github.rs lines 209-250: a manual sync that
\* returns Ok, seen from the links table
SyncGithubLink(l) ==
    /\ nwrites < MaxWrites
    /\ nwrites' = nwrites + 1
    /\ UpdateLastSyncAt(l)
    /\ UNCHANGED <<NotMon, monitor>>

\* the times of earlier syncs, 0 for a link that was never synced
PriorSyncTimes == 0..1

\* a monitor that was spawned, and links in any state
InitMonitor ==
    /\ InitOrch
    /\ state = "Idle"
    /\ max_parallel_tasks = DefaultMaxParallel
    /\ status = [t \in Tasks |-> "Todo"]
    /\ deps = {}
    /\ dag_position = [t \in Tasks |-> NoPosition]
    /\ req = [h \in Procs |-> NoReq]
    /\ written = {}
    /\ InitGenres
    /\ InitGh
    /\ InitQueue
    /\ links \in [Links -> [sync_enabled : BOOLEAN, last_sync_at : PriorSyncTimes]]
    /\ monitor = [NoMonitor EXCEPT !.pc = "new"]

NextMonitor ==
    \/ MonitorStart
    \/ MonitorTick
    \/ SyncLinkCall
    \/ SyncLinkReturn
    \/ \E l \in Links : ToggleGithubLinkSync(l)
    \/ \E l \in Links : SyncGithubLink(l)

SpecMonitor == InitMonitor /\ [][NextMonitor]_vars

-----------------------------------------------------------------------------
(* The worker dispatcher of a running orchestrator: it polls                *)
(* get_ready_to_execute, starts the tasks it is handed and completes the    *)
(* tasks it started.                                                        *)

\* the tasks the last get_ready_to_execute call handed to the dispatcher
Handed == IF pc[1] = "done" /\ ret[1].kind = "Ok"
          THEN {ret[1].ids[i] : i \in DOMAIN ret[1].ids}
          ELSE {}

\* get_ready_to_execute, lines 154-158, called by the dispatcher once it has
\* started what the call before handed out
DispatcherPoll ==
    /\ pc[1] \in {"idle", "done"} /\ ReadLockFree
    /\ \A t \in Handed : status[t] # "Todo"
    /\ \E t \in Tasks : status[t] # "Done"
    /\ IF ReadyRefused(state)
       THEN Return(1, OkIds(<<>>))
       ELSE Goto(1, "ready_plan")
    /\ UNCHANGED <<state, writer, max_parallel_tasks, Repo, log, call, nops, Bus, Mgr, Sched, Ext>>

\* the dispatcher starts a task it was handed
DispatcherStart(t) ==
    /\ t \in Handed
    /\ status[t] = "Todo"
    /\ TransitionTask(t, "InProgress")

\* the dispatcher completes a task that was started
DispatcherComplete(t) ==
    /\ status[t] = "InProgress"
    /\ TransitionTask(t, "Done")

\* a running orchestrator with room for one task at least, tasks that are
\* Todo or Done, and an acyclic dependency list
InitDispatch ==
    /\ InitOrch
    /\ InitExt
    /\ state = "Running"
    /\ max_parallel_tasks \in 1..MaxParallel
    /\ status \in [Tasks -> {"Todo", "Done"}]
    /\ deps \in SUBSET ForwardEdges(Tasks)

NextDispatch ==
    \/ DispatcherPoll
    \/ GetReadyPlan(1)
    \/ \E t \in Tasks : DispatcherStart(t)
    \/ \E t \in Tasks : DispatcherComplete(t)

SpecDispatch == InitDispatch /\ [][NextDispatch]_vars

\* the dispatcher keeps polling and working, and the repository does not
\* fail for ever
SpecDispatchFair ==
    /\ SpecDispatch
    /\ WF_vars(DispatcherPoll)
    /\ SF_vars(GetReadyPlan(1) /\ ret'[1].kind = "Ok")
    /\ \A t \in Tasks : WF_vars(DispatcherStart(t)) /\ WF_vars(DispatcherComplete(t))

-----------------------------------------------------------------------------
(* Properties *)

\* the events a call emitted, in emission order
EventsOf(id) == SelectSeq(log, LAMBDA e : e.op = id)

\* the payloads of a sequence of events
Payload(e) == [type |-> e.type, state |-> e.state, task_id |-> e.task_id]
Payloads(events) == [i \in DOMAIN events |-> Payload(events[i])]
StateChangedTo(s) == [type |-> "StateChanged", state |-> s, task_id |-> 0]

\* this step is the first one of a call of `op` by p
Calls(p, op) == call'[p].id # call[p].id /\ call'[p].op = op

LegalEdges ==
    {<<"Idle", "Running">>, <<"Running", "Paused">>, <<"Paused", "Running">>,
     <<"Running", "Stopping">>, <<"Paused", "Stopping">>, <<"Stopping", "Idle">>}

\* C1: under any interleaving of start, pause, resume and stop calls, every
\* change of the OrchestratorState is one of the legal edges Idle->Running,
\* Running->Paused, Paused->Running, Running->Stopping, Paused->Stopping,
\* Stopping->Idle.
C1_OnlyLegalEdges == [][state' # state => <<state, state'>> \in LegalEdges]_vars

\* a run that went Idle -> Running -> Paused -> Stopping -> Idle
C1_Witness ==
    /\ state = "Idle"
    /\ \E i, j, k \in DOMAIN log :
          /\ i < j /\ j < k
          /\ Payload(log[i]) = StateChangedTo("Paused")
          /\ Payload(log[j]) = StateChangedTo("Stopping")
          /\ Payload(log[k]) = StateChangedTo("Idle")

\* C3 as claimed: a start call is accepted only when the state is Idle; in
\* Running it returns AlreadyRunning, and in every state other than Idle it
\* returns an error, leaves the state unchanged and emits no event.
C3_StartOnlyFromIdle ==
    [][\A p \in Procs : Calls(p, "start") =>
          /\ state = "Running" => ret'[p] = Err("AlreadyRunning")
          /\ state # "Idle" =>
                /\ ret'[p].kind \in {"AlreadyRunning", "NotRunning"}
                /\ pc'[p] = "done"
                /\ state' = state
                /\ log' = log
          /\ state = "Idle" => state' = "Running"]_vars

\* C3 amended: a start call is rejected exactly when the state is Running
\* (AlreadyRunning, state unchanged, no event); called while the state is
\* Idle or Paused it is accepted, sets the state Running and emits
\* StateChanged{Running}; so Paused->Running happens through resume or start.
C3_StartUnlessRunning ==
    [][\A p \in Procs : Calls(p, "start") =>
          IF state = "Running"
          THEN /\ ret'[p] = Err("AlreadyRunning")
               /\ pc'[p] = "done"
               /\ state' = state
               /\ log' = log
          ELSE /\ state \in {"Idle", "Paused"}
               /\ state' = "Running"
               /\ pc'[p] # "done"
               /\ Payloads(log') = Append(Payloads(log), StateChangedTo("Running"))]_vars

\* a start call that found the orchestrator Paused and made it Running
C3_Witness ==
    \E p \in Procs :
       /\ call[p].op = "start" /\ call[p].seen = "Paused"
       /\ Payloads(EventsOf(call[p].id)) = <<StateChangedTo("Running")>>

\* C6: stop() called while the state is Idle returns success, the state
\* remains Idle and no event at all is emitted; so a second stop() adds
\* nothing to the final state and the events of the first.
C6_StopIdempotentAtIdle ==
    [][\A p \in Procs : (Calls(p, "stop") /\ state = "Idle") =>
          /\ ret'[p] = Ok
          /\ pc'[p] = "done"
          /\ state' = "Idle"
          /\ writer' = writer
          /\ log' = log]_vars

\* stop(); stop(): the first stopped a running orchestrator, the second
\* found it Idle and emitted nothing
C6_Witness ==
    \E p, q \in Procs :
       /\ call[p].op = "stop" /\ call[p].seen = "Running" /\ pc[p] = "done"
       /\ call[q].op = "stop" /\ call[q].seen = "Idle" /\ pc[q] = "done"
       /\ call[q].id = call[p].id + 1
       /\ EventsOf(call[q].id) = <<>>
       /\ Payloads(log) = <<StateChangedTo("Running"), StateChangedTo("Stopping"),
                            StateChangedTo("Idle")>>

NotifyOps == {"on_task_started", "on_task_completed", "on_task_failed", "on_task_review"}
PlanOps == {"start", "resume"} \cup NotifyOps

PlanUpdatedPayload == [type |-> "PlanUpdated", state |-> "-", task_id |-> 0]

\* the state or task event an operation emits before it builds the plan
CauseOf(c) ==
    CASE c.op \in {"start", "resume"} -> StateChangedTo("Running")
      [] c.op = "on_task_started" ->
            [type |-> "TaskStarted", state |-> "-", task_id |-> c.task_id]
      [] c.op = "on_task_completed" ->
            [type |-> "TaskCompleted", state |-> "-", task_id |-> c.task_id]
      [] c.op = "on_task_failed" ->
            [type |-> "TaskFailed", state |-> "-", task_id |-> c.task_id]
      [] c.op = "on_task_review" ->
            [type |-> "TaskAwaitingReview", state |-> "-", task_id |-> c.task_id]

C4_PauseResumeExactly ==
    \A p \in Procs :
       /\ (call[p].op = "pause" /\ pc[p] = "done") =>
             IF call[p].seen = "Running"
             THEN /\ ret[p] = Ok
                  /\ Payloads(EventsOf(call[p].id)) = <<StateChangedTo("Paused")>>
             ELSE /\ ret[p] = Err("NotRunning")
                  /\ EventsOf(call[p].id) = <<>>
       /\ (call[p].op = "resume" /\ pc[p] = "done") =>
             IF call[p].seen = "Paused"
             THEN /\ ret[p] = Ok
                  /\ Payloads(EventsOf(call[p].id)) =
                        <<StateChangedTo("Running"), PlanUpdatedPayload>>
             ELSE /\ ret[p] = Err("NotRunning")
                  /\ EventsOf(call[p].id) = <<>>

NotifyStep(p) ==
    /\ call'[p].op \in NotifyOps
    /\ call'[p].id # call[p].id \/ pc'[p] # pc[p]

\* C9: on_task_started, on_task_completed, on_task_failed and
\* on_task_review never change the OrchestratorState and never write a
\* task's status, in every orchestrator state; after on_task_failed no
\* dependent of the failed task is cancelled.
C9_NotificationsWriteNothing ==
    [][\A p \in Procs :
          NotifyStep(p) =>
             /\ state' = state
             /\ writer' = writer
             /\ status' = status
             /\ deps' = deps]_vars

\* on_task_failed has returned while the orchestrator is Paused, and the
\* dependents of the failed task are still Todo
C9_Witness ==
    \E p \in Procs :
       /\ call[p].op = "on_task_failed" /\ pc[p] = "done" /\ ret[p] = Ok
       /\ state = "Paused"
       /\ DependentsOfTask(deps, call[p].task_id) # {}
       /\ \A d \in DependentsOfTask(deps, call[p].task_id) : status[d] = "Todo"

Range(f) == {f[i] : i \in DOMAIN f}
Min(a, b) == IF a < b THEN a ELSE b

\* the Todo tasks all of whose dependencies are Done
ReadyIds(st, dp) ==
    {t \in DOMAIN st : st[t] = "Todo" /\ \A d \in DepsForTask(dp, t) : st[d] = "Done"}

\* the tasks that are being worked on or reviewed
InProgressIds(st) == {t \in DOMAIN st : st[t] \in {"InProgress", "InReview"}}

\* C7: get_ready_to_execute returns the empty list when its check finds the
\* state not Running; when it finds Running and returns a list, every id of
\* the list is Ready in the rows the plan was built from, no id occurs
\* twice, the list has min(ready, max(0, max_parallel_tasks - in_progress))
\* ids, and in_progress plus the list never exceeds max_parallel_tasks
\* unless in_progress already did.
C7_ReadyToExecute ==
    [][\A p \in Procs :
          /\ (Calls(p, "get_ready_to_execute") /\ state # "Running") =>
                ret'[p] = OkIds(<<>>) /\ pc'[p] = "done"
          /\ (pc[p] = "ready_plan" /\ pc'[p] = "done" /\ ret'[p].kind = "Ok") =>
                LET ids == ret'[p].ids
                    ready == Cardinality(ReadyIds(status, deps))
                    in_progress == Cardinality(InProgressIds(status))
                    free == IF max_parallel_tasks > in_progress
                            THEN max_parallel_tasks - in_progress ELSE 0
                IN  /\ Range(ids) \subseteq ReadyIds(status, deps)
                    /\ \A i, j \in DOMAIN ids : i # j => ids[i] # ids[j]
                    /\ Len(ids) = Min(ready, free)
                    /\ in_progress <= max_parallel_tasks =>
                          in_progress + Len(ids) <= max_parallel_tasks]_vars

\* a call that returned fewer ids than there are Ready tasks, next to a task
\* in progress
C7_Witness ==
    \E p \in Procs :
       /\ call[p].op = "get_ready_to_execute" /\ pc[p] = "done"
       /\ call[p].seen = "Running" /\ nwrites = 0
       /\ Len(ret[p].ids) = 1
       /\ Cardinality(ReadyIds(status, deps)) = 2
       /\ Cardinality(InProgressIds(status)) = 1

\* C8: on_task_completed(id, repo) returns exactly the Todo tasks that
\* depend on id and all of whose other dependencies are Done, whether or
\* not the repository already records id as Done.
C8_UnblockedByCompletion ==
    [][\A p \in Procs :
          (pc[p] = "completed_plan" /\ pc'[p] = "done" /\ ret'[p].kind = "Ok") =>
             Range(ret'[p].ids) =
                {u \in Tasks :
                    /\ status[u] = "Todo"
                    /\ call[p].task_id \in DepsForTask(deps, u)
                    /\ \A d \in DepsForTask(deps, u) \ {call[p].task_id} :
                          status[d] = "Done"}]_vars

\* C10: every subscriber's stream is the run of events sent after its
\* subscribe() call, in send order: nothing sent before the call, nothing
\* left out, nothing reordered.
C10_StreamIsSuffix ==
    \A s \in Subs :
       /\ rx[s].since + Len(stream[s]) <= Len(log)
       /\ stream[s] = SubSeq(log, rx[s].since + 1, rx[s].since + Len(stream[s]))

\* two subscribers that joined at different moments, after the first event,
\* and both received events
C10_Witness ==
    \E s, t \in Subs :
       /\ rx[s].since > 0 /\ rx[t].since > rx[s].since
       /\ Len(stream[s]) >= 3 /\ Len(stream[t]) >= 2

\* the oldest event the channel still holds for a receiver that wants `next`
OldestHeld(next) ==
    IF Len(log) - next + 1 > ChannelCapacity THEN Len(log) - ChannelCapacity + 1 ELSE next

\* C11: sending an event is possible whatever the subscribers do; every turn
\* of a subscriber's forwarding loop delivers the oldest event the channel
\* still holds for it (a subscriber more than 100 events behind skips its
\* oldest undelivered events and goes on with the later ones), its stream is
\* never closed by lagging, and a turn of one subscriber changes nothing for
\* the others.
C11_SlowSubscriberKeepsReceiving ==
    /\ [](Len(log) < MaxEvents => ENABLED SendEvent)
    /\ [][\A s \in Subs :
            rx'[s] # rx[s] /\ rx[s].open =>
               /\ rx'[s].open
               /\ stream'[s] = Append(stream[s], log[OldestHeld(rx[s].next)])
               /\ \A t \in Subs \ {s} : rx'[t] = rx[t] /\ stream'[t] = stream[t]]_vars

\* the instances the manager made for a project
InstancesOf(pr) == {i \in DOMAIN insts : insts[i].project_id = pr}

\* C12: while remove has not been called for a project, the manager makes at
\* most one ProjectOrchestrator for it under any interleaving of
\* get_or_create calls, every call that returned for that project returned
\* that instance (the one in the map), and calls for different projects
\* returned different instances.
C12_GetOrCreateRaceFree ==
    /\ \A pr \in Projects \ removed :
          /\ Cardinality(InstancesOf(pr)) <= 1
          /\ \A h \in Procs :
                (hnd[h].project_id = pr /\ hnd[h].got # 0) =>
                   /\ InstancesOf(pr) = {hnd[h].got}
                   /\ orchestrators[pr] = hnd[h].got
    /\ \A g, h \in Procs :
          (hnd[g].got # 0 /\ hnd[h].got # 0 /\ hnd[g].project_id # hnd[h].project_id) =>
             hnd[g].got # hnd[h].got

\* two concurrent get_or_create calls for one project both found the map
\* empty under the read guard, and both returned the same instance
C12_Witness ==
    \E g, h \in Procs :
       /\ g # h /\ removed = {}
       /\ hnd[g].project_id = hnd[h].project_id
       /\ hnd[g].missed /\ hnd[h].missed
       /\ hnd[g].got # 0 /\ hnd[g].got = hnd[h].got

\* the map holds this instance
InMap(i) == \E pr \in Projects : orchestrators[pr] = i

\* C13: once the orchestrator a WebSocket handler subscribed to is removed
\* from the manager, the handler's forwarding loop eventually ends (its
\* subscriber observes end-of-stream), whoever still holds the orchestrator.
C13_RemoveEndsStreams ==
    \A h \in Procs :
       (hnd[h].pc = "recv" /\ ~InMap(hnd[h].orch)) ~> (hnd[h].pc # "recv")

\* where a task is listed in a plan: <<level index, position>>
ListedAt(pl, t) ==
    {ij \in (DOMAIN pl.levels) \X (1..pl.total_tasks) :
        /\ ij[2] \in DOMAIN pl.levels[ij[1]].tasks
        /\ pl.levels[ij[1]].tasks[ij[2]].task_id = t}

\* the level number a plan gives a task
LevelOf(pl, t) == pl.levels[(CHOOSE ij \in ListedAt(pl, t) : TRUE)[1]].level

Diamond == {<<2, 1>>, <<3, 1>>, <<4, 2>>, <<4, 3>>}

\* C14: for an acyclic dependency list between the tasks of the list, the
\* plan lists every task exactly once, the level sizes sum to the number of
\* tasks, no level is empty, levels are numbered from 0, and the level of a
\* task is 0 without dependencies and else 1 + the largest level of its
\* dependencies; a chain of n tasks gives n levels, the diamond gives three.
C14_EveryTaskInItsLevel ==
    last_plan # NoPlan =>
       LET ids == DOMAIN status
           n == Cardinality(ids)
       IN  /\ last_plan.total_tasks = n
           /\ \A t \in ids : Cardinality(ListedAt(last_plan, t)) = 1
           /\ Len(PlanTasks(last_plan)) = n
           /\ \A i \in DOMAIN last_plan.levels :
                 /\ last_plan.levels[i].tasks # <<>>
                 /\ last_plan.levels[i].level = i - 1
           /\ \A t \in ids :
                 LevelOf(last_plan, t) =
                    IF DepsForTask(deps, t) = {} THEN 0
                    ELSE 1 + MaxOf({LevelOf(last_plan, d) : d \in DepsForTask(deps, t)})
           /\ deps = {<<t, t - 1>> : t \in 2..n} => Len(last_plan.levels) = n
           /\ (n = 4 /\ deps = Diamond) =>
                 /\ Len(last_plan.levels) = 3
                 /\ Len(last_plan.levels[2].tasks) = 2

\* the plan of the diamond A; B,C; D
C14_Witness ==
    /\ last_plan # NoPlan
    /\ deps = Diamond
    /\ Len(last_plan.levels) = 3
    /\ LevelOf(last_plan, 4) = 2

\* the tasks reached from t along one or more dependency edges
RECURSIVE ReachedFrom(_, _, _)
ReachedFrom(dp, seen, frontier) ==
    LET next == UNION {DepsForTask(dp, t) : t \in frontier}
    IN  IF next \subseteq seen THEN seen
        ELSE ReachedFrom(dp, seen \cup next, next \ seen)

HasCycle(dp, ids) == \E t \in ids : t \in ReachedFrom(dp, {}, {t})

\* C15: build_execution_plan returns a plan only for an acyclic dependency
\* list (a cyclic one is reported as CorruptGraph), and no plan it returns
\* lacks a task of the input.
C15_CyclesAreReported ==
    last_plan # NoPlan =>
       /\ ~HasCycle(deps, DOMAIN status)
       /\ \A t \in DOMAIN status : ListedAt(last_plan, t) # {}

\* the dependencies of t that are not Done
NotDone(t) == {d \in DepsForTask(deps, t) : status[d] # "Done"}

\* C16: every task of a plan carries the readiness the spec gives for its
\* status and the statuses of its dependencies: Done -> Completed,
\* Cancelled -> Cancelled, InProgress or InReview -> InProgress, Todo ->
\* Ready iff every dependency is Done, else Blocked by exactly the
\* dependencies that are not Done (a Cancelled dependency blocks).
C16_ReadinessBySpec ==
    last_plan # NoPlan =>
       \A i \in DOMAIN PlanTasks(last_plan) :
          LET et == PlanTasks(last_plan)[i]
              t == et.task_id
          IN  /\ et.status = status[t]
              /\ et.dependencies = DepsForTask(deps, t)
              /\ et.readiness =
                    CASE status[t] = "Done" -> Readiness("Completed", {})
                      [] status[t] = "Cancelled" -> Readiness("Cancelled", {})
                      [] status[t] = "InProgress" -> Readiness("InProgress", {})
                      [] status[t] = "InReview" -> Readiness("InProgress", {})
                      [] status[t] = "Todo" /\ NotDone(t) = {} -> Readiness("Ready", {})
                      [] status[t] = "Todo" /\ NotDone(t) # {} -> Readiness("Blocked", NotDone(t))

\* a plan with a Todo task whose two dependencies are one Done and one
\* Cancelled: it is Blocked by the Cancelled one alone
C16_Witness ==
    /\ last_plan # NoPlan
    /\ \E i \in DOMAIN PlanTasks(last_plan) :
          LET et == PlanTasks(last_plan)[i]
          IN  /\ et.status = "Todo"
              /\ Cardinality(et.dependencies) = 2
              /\ et.readiness.kind = "Blocked"
              /\ Cardinality(et.readiness.blocking_task_ids) = 1
              /\ \A d \in et.readiness.blocking_task_ids : status[d] = "Cancelled"

\* the tasks of the repository with one of the statuses
WithStatus(statuses) == {t \in DOMAIN status : status[t] \in statuses}

\* C17: the statistics of every plan count every task of the task set once:
\* completed, in_progress, ready and blocked count the Done, the InProgress
\* or InReview, the Ready and the Blocked tasks, Cancelled tasks are in none
\* of the four, so the four sum to total_tasks minus the Cancelled tasks;
\* in_review_tasks counts the InReview tasks, which in_progress_tasks
\* counts too.
C17_StatisticsCountOnce ==
    last_plan # NoPlan =>
       /\ last_plan.total_tasks = Cardinality(DOMAIN status)
       /\ last_plan.completed_tasks = Cardinality(WithStatus({"Done"}))
       /\ last_plan.in_progress_tasks = Cardinality(WithStatus({"InProgress", "InReview"}))
       /\ last_plan.ready_tasks = Cardinality({t \in WithStatus({"Todo"}) : NotDone(t) = {}})
       /\ last_plan.blocked_tasks = Cardinality({t \in WithStatus({"Todo"}) : NotDone(t) # {}})
       /\ last_plan.completed_tasks + last_plan.in_progress_tasks
             + last_plan.ready_tasks + last_plan.blocked_tasks
             = last_plan.total_tasks - Cardinality(WithStatus({"Cancelled"}))
       /\ last_plan.in_review_tasks = Cardinality(WithStatus({"InReview"}))
       /\ last_plan.in_review_tasks <= last_plan.in_progress_tasks

\* C18: a second build_plan on the same tasks and dependencies returns the
\* plan the first returned, and get_ready_to_execute's truncation of it
\* gives the same ids.
C18_SameRowsSamePlan ==
    [][(last_plan # NoPlan /\ status' = status /\ deps' = deps) =>
          /\ last_plan' = last_plan
          /\ \A m \in 0..MaxParallel :
                ReadyToExecute(last_plan', m) = ReadyToExecute(last_plan, m)]_vars

\* C19: get_tasks_unblocked_by_completion(plan, t) lists, each once, exactly
\* the Todo tasks whose dependencies that are not Done are t alone; a task
\* that t and another task block is not listed; in the chain A <- B <- C of
\* Todo tasks the result for A is [B].
C19_OnlyRemainingBlocker ==
    out.fn = "get_tasks_unblocked_by_completion" =>
       /\ Range(out.val) = {u \in WithStatus({"Todo"}) : NotDone(u) = {out.task_id}}
       /\ \A i, j \in DOMAIN out.val : i # j => out.val[i] # out.val[j]
       /\ (deps = Chain /\ WithStatus({"Todo"}) = Tasks /\ out.task_id = 1) =>
             out.val = <<2>>

\* the call left out a task that the completing task and another one block,
\* and returned a task that only the completing task blocks
C19_Witness ==
    /\ out.fn = "get_tasks_unblocked_by_completion"
    /\ out.val # <<>>
    /\ \E u \in WithStatus({"Todo"}) :
          /\ out.task_id \in NotDone(u)
          /\ Cardinality(NotDone(u)) = 2
          /\ u \notin Range(out.val)

\* the transitions the spec allows between different statuses
TransitionTable ==
    ({"Todo"} \X {"InProgress", "Cancelled"})
      \cup ({"InProgress"} \X {"Todo", "InReview", "Done", "Cancelled"})
      \cup ({"InReview"} \X {"InProgress", "Done", "Cancelled"})
      \cup ({"Done"} \X {"Todo", "InProgress"})
      \cup ({"Cancelled"} \X {"Todo"})

\* C20: a validation that read its rows answers Invalid exactly when the new
\* status differs from the current one and the pair is not in the table;
\* Todo -> Done and Todo -> InReview are Invalid; and a task whose status
\* changes only by transitions that are not Invalid becomes Done only from
\* InProgress or InReview.
C20_InvalidExactlyOffTable ==
    /\ [][(out' # out /\ out'.fn = "validate_transition" /\ out'.val.kind # "Database") =>
            LET current == status[out'.task_id]
                new == out'.new_status
            IN  /\ out'.val.kind = "Invalid" <=>
                      (current # new /\ <<current, new>> \notin TransitionTable)
                /\ (current = "Todo" /\ new \in {"Done", "InReview"}) =>
                      out'.val.kind = "Invalid"]_vars
    /\ [][\A t \in Tasks :
            (status'[t] = "Done" /\ status[t] # "Done") =>
               status[t] \in {"InProgress", "InReview"}]_vars

\* Todo -> Done was called Invalid for one task while another task became
\* Done through InProgress
C20_Witness ==
    /\ out.fn = "validate_transition"
    /\ out.new_status = "Done"
    /\ status[out.task_id] = "Todo"
    /\ out.val.kind = "Invalid"
    /\ \E u \in Tasks : status[u] = "Done"

\* this step is a validation that read its rows
Validated ==
    out' # out /\ out'.fn = "validate_transition" /\ out'.val.kind # "Database"

\* C21 as claimed: for every pair (a, b), a = b included, for which
\* is_valid_transition is false, validate_transition does not answer Valid.
C21_NeverValidOffTable ==
    [][Validated =>
          (~IsValidTransition(status[out'.task_id], out'.new_status) =>
              out'.val.kind # "Valid")]_vars

\* C21 amended: for every pair of different statuses for which
\* is_valid_transition is false the answer is Invalid, never Valid or
\* RequiresConfirmation; for a = b is_valid_transition is false as well,
\* and the answer is Valid.
C21_NeverValidOffTableUnlessSame ==
    [][Validated =>
          LET a == status[out'.task_id]
              b == out'.new_status
          IN  /\ (a # b /\ ~IsValidTransition(a, b)) => out'.val.kind = "Invalid"
              /\ a = b => (~IsValidTransition(a, b) /\ out'.val.kind = "Valid")]_vars

\* a task in review was refused the way back to Todo, which the table lacks
C21_Witness ==
    /\ out.fn = "validate_transition"
    /\ status[out.task_id] = "InReview"
    /\ out.new_status = "Todo"
    /\ out.val.kind = "Invalid"

\* the dependencies of t that are not Done, read off the rows
NotDoneDeps(t) == {d \in Tasks : <<t, d>> \in deps /\ status[d] # "Done"}

\* the answer C22 asks for on a legal pair
C22_Expected(t, b) ==
    IF b = "InProgress" /\ NotDoneDeps(t) # {}
    THEN Validation("RequiresConfirmation", NotDoneDeps(t))
    ELSE Validation("Valid", {})

\* C22 as claimed, with the legal transitions of the specification's table
\* (X -> X included): a legal transition to InProgress is answered
\* RequiresConfirmation with exactly the dependencies that are not Done when
\* there is one, and every other legal transition is answered Valid.
C22_ConfirmationOnEveryLegalStart ==
    [][Validated =>
          LET a == status[out'.task_id]
              b == out'.new_status
          IN  (a = b \/ <<a, b>> \in TransitionTable) =>
                  out'.val = C22_Expected(out'.task_id, b)]_vars

\* C22 amended: the same for the legal transitions between different
\* statuses; a same-status request is answered Valid whatever the
\* dependencies are, InProgress -> InProgress included.  A Todo task with a
\* Todo dependency is never answered Invalid.
C22_ConfirmationOnStatusChange ==
    [][Validated =>
          LET t == out'.task_id
              a == status[t]
              b == out'.new_status
          IN  /\ (a # b /\ <<a, b>> \in TransitionTable) =>
                     out'.val = C22_Expected(t, b)
              /\ a = b => out'.val = Validation("Valid", {})
              /\ (a = "Todo" /\ b = "InProgress") => out'.val.kind # "Invalid"]_vars

\* a Todo task with two dependencies, one Todo and one Done, asks to start
\* and is told to confirm, with the Todo dependency as the only blocker
C22_Witness ==
    /\ out.fn = "validate_transition"
    /\ out.new_status = "InProgress"
    /\ status[out.task_id] = "Todo"
    /\ \E y, z \in Tasks :
          /\ {<<out.task_id, y>>, <<out.task_id, z>>} \subseteq deps
          /\ status[y] = "Todo" /\ status[z] = "Done"
          /\ out.val = Validation("RequiresConfirmation", {y})

\* C23: can_start_task is true exactly when the task is Todo and every one
\* of its dependencies is Done; it is false for every task that is not Todo.
C23_CanStartIffTodoAndDepsDone ==
    [][(out' # out /\ out'.fn = "can_start_task") =>
          LET t == out'.task_id
          IN  /\ out'.val.can_start =
                    (status[t] = "Todo" /\ \A d \in Tasks :
                                             <<t, d>> \in deps => status[d] = "Done")
              /\ status[t] # "Todo" => ~out'.val.can_start]_vars

\* a task that is not Todo, with every dependency Done, was refused; and the
\* rows hold a Todo task with a Done dependency
C23_Witness ==
    /\ out.fn = "can_start_task"
    /\ status[out.task_id] = "Done"
    /\ \E d \in Tasks : <<out.task_id, d>> \in deps
    /\ \A d \in Tasks : <<out.task_id, d>> \in deps => status[d] = "Done"
    /\ ~out.val.can_start

\* the pairs <<x, z>> with a walk of exactly n edges from x to z
RECURSIVE EdgePower(_, _)
EdgePower(dp, n) ==
    IF n = 1 THEN dp
    ELSE LET shorter == EdgePower(dp, n - 1)
         IN  {xz \in Tasks \X Tasks :
                 \E y \in Tasks : <<xz[1], y>> \in shorter /\ <<y, xz[2]>> \in dp}

\* z is reached from x by one or more edges (the shortest such walk
\* has at most NTasks edges)
ReachableByEdges(dp, x, z) == \E n \in 1..NTasks : <<x, z>> \in EdgePower(dp, n)

\* C24: would_create_cycle(a, b) answers true exactly when a is reached from
\* b by one or more existing edges, on every edge set, cyclic ones included
\* (the query ends on all of them: every call has its answer).
C24_CycleIffReachable ==
    [][(out' # out /\ out'.fn = "would_create_cycle" /\ out'.val.kind = "Ok") =>
          (out'.val.cycle = ReachableByEdges(deps, out'.val.depends_on, out'.task_id))]_vars

\* on an edge set that holds a cycle the query answered true for a task that
\* is two edges away from the other: 3 -> 2 -> 1 with 1 -> 3 closing the cycle
C24_Witness ==
    /\ out.fn = "would_create_cycle"
    /\ {<<3, 2>>, <<2, 1>>, <<1, 3>>} \subseteq deps
    /\ out.task_id = 1 /\ out.val.depends_on = 3
    /\ out.val.kind = "Ok" /\ out.val.cycle

\* C25: whatever create_dependency and delete_dependency requests were
\* served, one after another or concurrently, the stored edge set has no
\* cycle and no self-edge.
C25_StoredEdgesAcyclic ==
    /\ ~HasCycle(deps, Tasks)
    /\ \A e \in deps : e[1] # e[2]

\* the answers of a create_dependency that refuses the request
Rejections == {"BadRequest", "NotFound", "Conflict"}

\* handler h moves on in its create_dependency request with this step
CreateStep(h) == req'[h] # req[h] /\ req'[h].op = "create_dependency"

\* C26: a create_dependency that is rejected (self-dependency, a task that
\* is missing or outside the project, a duplicate edge, an edge that closes
\* a cycle) is rejected before anything is stored: each of those requests
\* gets its rejection, and no step of a request up to its rejection changes
\* an edge or a DAG position.
C26_RejectedChangesNothing ==
    [][\A h \in Procs : CreateStep(h) =>
          LET a == req'[h].task_id
              b == req'[h].depends_on_task_id
              rejected == req'[h].pc = "done" /\ req'[h].ret \in Rejections
          IN  /\ (rejected \/ req'[h].pc \in {"exists", "cycle", "create"}) =>
                     (deps' = deps /\ dag_position' = dag_position /\ written' = written)
              /\ rejected => req[h].pc \in {"idle", "done", "exists", "cycle"}
              /\ (req[h].pc \in {"idle", "done"} /\
                    (a = b \/ {a, b} \cap {MissingTask, OtherProjectTask} # {})) => rejected
              /\ (req[h].pc = "exists" /\ <<a, b>> \in deps) =>
                     (rejected /\ req'[h].ret = "Conflict")
              /\ (req[h].pc = "cycle" /\ ReachableByEdges(deps, b, a)) =>
                     (rejected /\ req'[h].ret = "Conflict")]_vars

\* S3: with B -> A and C -> B stored and laid out, A -> C was refused as a
\* conflict, and the edges and the positions are the ones of before
C26_Witness ==
    \E h \in Procs :
       /\ req[h] = [op |-> "create_dependency", task_id |-> 1, depends_on_task_id |-> 3,
                    pc |-> "done", ret |-> "Conflict"]
       /\ deps = {<<2, 1>>, <<3, 2>>}
       /\ dag_position = <<<<0, 0>>, <<340, 0>>, <<680, 0>>>>

\* the longest chain of dependencies below a task
RECURSIVE Depth(_, _)
Depth(dp, t) ==
    IF DepsForTask(dp, t) = {} THEN 0
    ELSE 1 + MaxOf({Depth(dp, d) : d \in DepsForTask(dp, t)})

\* this step ends a create_dependency that stored its edge and laid it out
Created == req'[1] # req[1] /\ req[1].pc = "layout" /\ req'[1].ret = "Ok"

\* C27: after an edge was created in an acyclic project, every task of an
\* edge sits at x = level * 340, y = rank * 120, its level being its
\* longest-path depth and the ranks of one level being exactly 0..k-1; the
\* tasks without an edge keep their position; the positions written are
\* exactly the ones that changed.
C27_LayoutByLevelAndRank ==
    [][Created =>
          LET laid == DagTaskIds(deps')
              level(t) == Depth(deps', t)
              row(l) == {t \in laid : level(t) = l}
          IN  /\ \A t \in laid : dag_position'[t] # NoPosition
              /\ \A t \in laid : dag_position'[t][1] = level(t) * 340
              /\ \A t \in laid :
                    {dag_position'[u][2] : u \in row(level(t))} =
                        {rank * 120 : rank \in 0..(Cardinality(row(level(t))) - 1)}
              /\ \A t, u \in laid : t # u => dag_position'[t] # dag_position'[u]
              /\ \A t \in Tasks \ laid : dag_position'[t] = dag_position[t]
              /\ written' = {t \in Tasks : dag_position'[t] # dag_position[t]}]_vars

\* tasks 2 and 3 depend on task 1: they share level 1 with ranks 1 and 0, and
\* task 1, which was at the origin before, was not written
C27_Witness ==
    /\ req[1].op = "create_dependency" /\ req[1].pc = "done" /\ req[1].ret = "Ok"
    /\ deps = {<<2, 1>>, <<3, 1>>}
    /\ dag_position = <<<<0, 0>>, <<340, 120>>, <<340, 0>>>>
    /\ written = {2}

\* C28: reorder assigns the positions atomically: whenever no reorder is
\* between two of its updates (none was called, or each has returned, with
\* success or with a failure), the positions of the project's genres are
\* dense from zero and no two genres have the same position.
C28_ReorderAtomic ==
    (\A h \in Procs : reorder_req[h].pc # "update") =>
        /\ {genres[g] : g \in Genres} = 0..(NGenres - 1)
        /\ \A g, k \in Genres : g # k => genres[g] # genres[k]

\* the tasks that have a mapping
MappedTasks == {m.task_id : m \in mappings}

\* C29: the status of a task that has a mapping changes only when a local
\* writer writes it: no step of a sync changes it, also when the local write
\* falls between the sync's read of the task and its write.
C29_SyncKeepsLocalStatus ==
    [][\A t \in MappedTasks \cap DOMAIN task_rows :
          task_rows'[t].status # task_rows[t].status => nwrites' = nwrites + 1]_vars

\* this step ends a run that follows a run without item errors
SecondRunEnds(p) == sync[p].pc # "done" /\ sync'[p].pc = "done" /\ sync[p].clean_before

\* the tasks whose mapping is VibeToGithub
OneWayTasks == {m.task_id : m \in {x \in mappings : x.sync_direction = "VibeToGithub"}}

\* C30: with the remote unchanged, a run that follows a run which returned
\* without item errors creates no task and no mapping (items_created = 0)
\* and leaves every task row as the first run left it; and no step of any
\* run writes a task whose mapping is VibeToGithub.
C30_ResyncChangesNothing ==
    [][\A p \in Procs :
          /\ SecondRunEnds(p) =>
                /\ sync'[p].items_created = 0
                /\ <<task_rows', mappings'>> = sync[p].before
          /\ \A t \in OneWayTasks : task_rows'[t] = task_rows[t]]_vars

\* a second run has ended after a first run that created the task of issue 2
\* and updated the mapped task of issue 1 from the remote title
C30_Witness ==
    /\ sync[1].pc = "done" /\ sync[1].ret = "Ok" /\ sync[1].clean_before
    /\ sync[1].items_updated = 2 /\ sync[1].errors = 0
    /\ Len(task_rows) = 2
    /\ task_rows[1].title = items[1].title /\ task_rows[1].status = "InProgress"
    /\ Mapping(2, 2, "Bidirectional") \in mappings

\* a run has ended with the VibeToGithub task of issue 1 as it was
C30_WitnessOneWay ==
    /\ sync[1].pc = "done" /\ sync[1].ret = "Ok" /\ sync[1].items_synced = 2
    /\ items[1].issue
    /\ Mapping(1, 1, "VibeToGithub") \in mappings
    /\ task_rows[1] = TaskRow("local", "-", "InProgress", "-")

-----------------------------------------------------------------------------
(* sync_from_github: item errors, counters and the return (C31) *)

\* a run of caller p that fetched the project items
InLoop(p) == sync[p].pc # "idle" /\ ~(sync[p].pc = "done" /\ sync[p].index = 0)

\* the counters of SyncResult while and after the items are walked: every
\* item before `index` was counted once, as synced or as an error
C31_Counts ==
    \A p \in Procs :
       InLoop(p) =>
          /\ sync[p].items_synced = sync[p].items_created + sync[p].items_updated
          /\ sync[p].items_synced + sync[p].errors = sync[p].index - 1
          /\ sync[p].index <= Len(items) + 1
          /\ sync[p].pc = "done" => sync[p].index = Len(items) + 1

\* the end of one item: the next item is the one after it, and either one
\* error was pushed or the item was counted as created or updated
C31_ItemStep ==
    \A p \in Procs :
       (sync[p].pc \notin {"idle", "done"} /\ sync'[p].index # sync[p].index) =>
          /\ sync'[p].index = sync[p].index + 1
          /\ sync'[p].pc = "item"
          /\ \/ /\ sync'[p].errors = sync[p].errors + 1
                /\ sync'[p].items_synced = sync[p].items_synced
                /\ sync'[p].items_created = sync[p].items_created
                /\ sync'[p].items_updated = sync[p].items_updated
             \/ /\ sync'[p].errors = sync[p].errors
                /\ sync'[p].items_synced = sync[p].items_synced + 1
                /\ sync'[p].items_created + sync'[p].items_updated =
                      sync[p].items_created + sync[p].items_updated + 1

\* the return after the last item, as the spec has it
C31_ReturnsOk ==
    \A p \in Procs :
       (sync[p].pc = "item" /\ sync'[p].pc = "done") =>
          /\ sync'[p].ret = "Ok"
          /\ links'[SyncedLink].last_sync_at \in Now

\* the return after the last item, as the code has it
C31_ReturnsOkIfLinkWritten ==
    \A p \in Procs :
       (sync[p].pc = "item" /\ sync'[p].pc = "done") =>
          \/ /\ sync'[p].ret = "Ok"
             /\ links'[SyncedLink].last_sync_at \in Now
          \/ /\ sync'[p].ret = "Err"
             /\ links' = links

\* C31 as stated: an item failure adds one error and the walk goes on, every
\* item is counted exactly once, items_synced = items_created + items_updated
\* counts the items that did not fail, and after the last item last_sync_at
\* is written and the call returns success.
C31_ItemErrorsThenSuccess ==
    []C31_Counts /\ [][C31_ItemStep /\ C31_ReturnsOk]_vars

\* C31 amended: the same walk and counters; after the last item the call
\* writes last_sync_at and returns success, or the write fails, last_sync_at
\* stays as it was and the call returns the error of the write.
C31_ItemErrorsThenLinkWrite ==
    []C31_Counts /\ [][C31_ItemStep /\ C31_ReturnsOkIfLinkWritten]_vars

\* item 1 failed, item 2 was created after it, and the run returned success
C31_Witness ==
    /\ sync[1].pc = "done" /\ sync[1].ret = "Ok"
    /\ sync[1].errors = 1 /\ sync[1].items_created = 1
    /\ FindByGithubIssue(1) = {} /\ FindByGithubIssue(2) # {}
    /\ links[SyncedLink].last_sync_at > 0

-----------------------------------------------------------------------------
(* SyncService: the queue (C32, C33, C34, C39) *)

\* C32: the queue never holds more than MAX_QUEUE_SIZE operations, whatever
\* the calls of sync_task_status and the runs of process_queue are and
\* however they interleave.
C32_QueueWithinCapacity == Len(sync_queue) <= MAX_QUEUE_SIZE

\* the operations a caller holds outside the queue: the one it is about to
\* execute or to queue, the drained ones it has not attempted yet, the
\* failed ones it is going to push back
HeldBy(p) ==
    (IF svc[p].pc \in {"execute", "queue"} THEN {svc[p].operation.id} ELSE {})
    \cup (IF svc[p].pc = "process"
          THEN {svc[p].operations[i].id : i \in svc[p].index..Len(svc[p].operations)}
               \cup {svc[p].failed[i].id : i \in DOMAIN svc[p].failed}
          ELSE {})

\* the ids of the queued operations
Queued == {sync_queue[i].id : i \in DOMAIN sync_queue}

\* the operation is in the queue or on its way into it or out of it
Pending(id) == id \in Queued \/ \E p \in Procs : id \in HeldBy(p)

\* the attempts of the operations, as the spec counts them
C33_NoFourthAttempt == \A id \in DOMAIN attempts : attempts[id] <= RetryLimit

\* with a client: a queued operation failed at submission and in
\* retry_count runs of process_queue, and it is queued with less than three
\* of these; no operation is attempted more than four times
C33_RetryCounts ==
    /\ \A i \in DOMAIN sync_queue :
          /\ sync_queue[i].retry_count < RetryLimit
          /\ attempts[sync_queue[i].id] = sync_queue[i].retry_count + 1
    /\ \A id \in DOMAIN attempts : attempts[id] <= RetryLimit + 1

\* the steps of process_queue: the drain takes the whole queue at once; the
\* drained operations are attempted one by one in their order; one that
\* fails is kept with retry_count + 1, or dropped when that reaches three;
\* the kept ones are pushed back behind what was queued meanwhile
C33_ProcessSteps ==
    \A p \in Procs :
       /\ (svc[p].pc # "process" /\ svc'[p].pc = "process") =>
             svc'[p].operations = sync_queue /\ sync_queue' = <<>>
       /\ (svc[p].pc = "process" /\ svc'[p].index # svc[p].index) =>
             LET operation == svc[p].operations[svc[p].index]
                 retried == [operation EXCEPT !.retry_count = @ + 1]
             IN  /\ svc'[p].index = svc[p].index + 1
                 /\ attempts' = [attempts EXCEPT ![operation.id] = @ + 1]
                 /\ svc'[p].processed = svc[p].processed =>
                       svc'[p].failed = IF retried.retry_count < RetryLimit
                                        THEN Append(svc[p].failed, retried)
                                        ELSE svc[p].failed
                 /\ svc'[p].processed # svc[p].processed =>
                       /\ svc'[p].processed = svc[p].processed + 1
                       /\ svc'[p].failed = svc[p].failed
       /\ (svc[p].pc = "process" /\ svc'[p].pc = "done") =>
             /\ svc[p].index = Len(svc[p].operations) + 1
             /\ sync_queue' = sync_queue \o svc[p].failed

\* C33 as stated: process_queue drains atomically and attempts in queue
\* order, a failed operation is re-queued with retry_count + 1, and, the
\* attempt at submission counted, no operation is attempted a fourth time,
\* so every queued operation leaves the queue for good.
C33_ThreeAttempts ==
    /\ []C33_NoFourthAttempt
    /\ [][C33_ProcessSteps]_vars
    /\ \A id \in 1..MaxOps : (id \in Queued) ~> ~Pending(id)

\* C33 amended: the same, but an operation is dropped after three failed
\* attempts of process_queue, which for an operation that was tried at
\* submission is its fourth failed attempt; no operation is attempted a
\* fifth time, and with a worker that keeps calling process_queue every
\* queued operation leaves the queue for good.
C33_ThreeQueuedAttempts ==
    /\ []C33_RetryCounts
    /\ [][C33_ProcessSteps]_vars
    /\ \A id \in 1..MaxOps : (id \in Queued) ~> ~Pending(id)

\* an operation was attempted four times and is gone
C33_Witness ==
    \E id \in DOMAIN attempts : attempts[id] = RetryLimit + 1 /\ ~Pending(id)

\* a caller in sync_task_status, sync_task_assignment or sync_task_branch
Submitting(p) == svc[p].pc \in {"execute", "queue"}

\* no call has returned an error; a service without client makes no remote
\* call, and its process_queue processes nothing
C34_NoError ==
    /\ \A p \in Procs : svc[p].pc = "done" => svc[p].ret = "Ok"
    /\ ~client =>
          /\ \A id \in DOMAIN attempts : attempts[id] = 0
          /\ \A p \in Procs : svc[p].pc \notin {"execute", "process"} /\ svc[p].processed = 0
          /\ remote = [t \in RemoteTasks |-> RemoteRow]

\* the steps of a submission: without client it goes to the queue untried;
\* a remote call that succeeds returns with the queue as it was; one that
\* fails is followed by the push of the operation, with retry_count 0, at
\* the back of the queue
C34_SubmitSteps ==
    \A p \in Procs :
       /\ (~Submitting(p) /\ Submitting(p)') =>
             /\ svc'[p].operation.retry_count = 0
             /\ svc'[p].pc = IF client THEN "execute" ELSE "queue"
             /\ sync_queue' = sync_queue
       /\ (svc[p].pc = "execute" /\ svc'[p].pc = "done") =>
             /\ svc'[p].outcome = "Ok" /\ svc'[p].ret = "Ok"
             /\ sync_queue' = sync_queue
       /\ (svc[p].pc = "execute" /\ svc'[p].pc = "queue") =>
             /\ svc'[p].outcome # "Ok"
             /\ sync_queue' = sync_queue
       /\ (svc[p].pc = "queue" /\ svc'[p].pc # "queue") =>
             /\ svc'[p].pc = "done" /\ svc'[p].ret = "Ok"
             /\ sync_queue' # <<>>
             /\ sync_queue'[Len(sync_queue')] = svc[p].operation
             /\ svc[p].operation.retry_count = 0
             /\ Len(sync_queue') = Min(Len(sync_queue) + 1, MAX_QUEUE_SIZE)

\* process_queue of a service without client: Ok(0), and the queue is left
\* as it is
C34_OfflineProcess ==
    \A p \in Procs :
       (~client /\ ~Submitting(p) /\ ~Submitting(p)' /\ svc'[p] # svc[p]) =>
          /\ svc'[p].pc = "done" /\ svc'[p].ret = "Ok" /\ svc'[p].processed = 0
          /\ sync_queue' = sync_queue

\* C34: sync_task_status, sync_task_assignment and sync_task_branch never
\* return an error.  Offline, or online with a failing remote call, the
\* operation is appended to the queue with retry_count 0 and the call
\* returns success; when the remote call succeeds nothing is queued.
\* process_queue while offline returns 0 and leaves the queue unchanged.
C34_CallsNeverFail ==
    []C34_NoError /\ [][C34_SubmitSteps /\ C34_OfflineProcess]_vars

\* online, one call failed into the queue and a later one succeeded
C34_Witness ==
    /\ client /\ Len(sync_queue) = 1 /\ sync_queue[1].retry_count = 0
    /\ svc[1].pc = "done" /\ svc[1].outcome = "Ok" /\ svc[1].operation.id > sync_queue[1].id

\* C39: the status updates of one task reach the remote table in the order
\* of their submission: no status operation is applied after a newer one of
\* the same task was applied.
C39_StatusInSubmissionOrder ==
    [][\A t \in QueueTasks : latest'[t].applied >= latest[t].applied]_vars

-----------------------------------------------------------------------------
(* GitHubSyncMonitor: the ticks (C35) *)

\* the tick is walking the links it loaded
Walking == monitor.pc \in {"links", "sync_link"}

\* the links of the tick: exactly those that were enabled when they were
\* loaded, each once, by their last_sync_at of that moment, never synced
\* first; the links handed to sync_from_github so far are the first ones of
\* them, in that order, and one is being synced at most
C35_TickOrder ==
    /\ monitor.pc = "off" => monitor.tick = 0
    /\ monitor.tick > 0 /\ monitor.ret # "Err" =>
          /\ Range(monitor.enabled_links) =
                {l \in Links : monitor.at_query[l].sync_enabled}
          /\ Len(monitor.enabled_links) = Cardinality(Range(monitor.enabled_links))
          /\ ByLastSyncAt(monitor.enabled_links, monitor.at_query)
          /\ monitor.synced =
                SubSeq(monitor.enabled_links, 1,
                       IF monitor.pc = "sync_link" THEN monitor.index ELSE monitor.index - 1)
          /\ monitor.pc = "sleep" => monitor.synced = monitor.enabled_links
    /\ monitor.tick > 0 /\ monitor.ret = "Err" => monitor.synced = <<>> /\ monitor.pc = "sleep"

\* the steps of a tick: a link is handed over only when no sync is running;
\* a sync that returns, with or without error, is followed by the next link
\* or, after the last one, by the sleep until the next tick; a tick that
\* fails leaves the monitor asleep, not stopped
C35_TickSteps ==
    /\ monitor'.synced # monitor.synced /\ monitor'.synced # <<>> =>
          /\ monitor.pc = "links" /\ monitor'.pc = "sync_link"
          /\ monitor'.synced = Append(monitor.synced, monitor.enabled_links[monitor.index])
    /\ monitor.pc = "sync_link" /\ monitor'.pc # "sync_link" =>
          /\ monitor'.index = monitor.index + 1
          /\ monitor'.errors \in {monitor.errors, monitor.errors + 1}
          /\ monitor'.pc = IF monitor.index < Len(monitor.enabled_links) THEN "links" ELSE "sleep"
    /\ monitor.pc = "sleep" => monitor'.pc \in {"sleep", "links"}
    /\ Walking => monitor'.tick = monitor.tick /\ monitor'.enabled_links = monitor.enabled_links

\* C35: in one monitor tick every enabled link is synced exactly once, one
\* after another, in the order last_sync_at ascending with never-synced
\* links first; an error while syncing one link does not prevent the sync
\* of the links after it, and an error in one tick does not stop later
\* ticks.
C35_TickSyncsEachLinkOnce == []C35_TickOrder /\ [][C35_TickSteps]_vars

\* the second tick has synced all three links, a never-synced one first, and
\* the sync of the first link failed
C35_Witness ==
    /\ monitor.tick = MaxTicks /\ monitor.pc = "sleep" /\ monitor.ret = "Ok"
    /\ Len(monitor.synced) = NLinks /\ monitor.errors = 1
    /\ monitor.at_query[monitor.synced[1]].last_sync_at = 0
    /\ links[monitor.synced[1]].last_sync_at = 0
    /\ monitor.at_query[monitor.synced[NLinks]].last_sync_at > 0

-----------------------------------------------------------------------------
(* ProjectOrchestrator: failed start and resume (C36), hand-out while       *)
(* paused (C37)                                                             *)

\* C36: a start or resume that returned an error, with no call made after
\* it, has left the state as it was when the call read it, and every
\* StateChanged it emitted is followed by its PlanUpdated.
C36_FailedCallKeepsState ==
    \A p \in Procs :
       (/\ call[p].op \in {"start", "resume"}
        /\ pc[p] = "done" /\ ret[p].kind # "Ok"
        /\ call[p].id = nops) =>
          /\ state = call[p].seen
          /\ \A i \in DOMAIN log :
                (log[i].op = call[p].id /\ log[i].type = "StateChanged") =>
                   \E j \in DOMAIN log :
                      j > i /\ log[j].op = call[p].id /\ log[j].type = "PlanUpdated"

\* C37: no get_ready_to_execute call returns a task id while the
\* orchestrator is Paused, or Idle after a stop: a call that returns task
\* ids returns them in a state other than these.
C37_NoHandOutWhilePaused ==
    [][\A p \in Procs :
          (/\ pc[p] = "ready_plan" /\ pc'[p] = "done"
           /\ ret'[p].kind = "Ok" /\ ret'[p].ids # <<>>) =>
             state \notin {"Paused", "Idle"}]_vars

-----------------------------------------------------------------------------
(* Progress of the scheduling (C38) *)

\* every task is Todo or Done, and one is Todo
Waiting ==
    /\ \A t \in Tasks : status[t] \in {"Todo", "Done"}
    /\ \E t \in Tasks : status[t] = "Todo"

\* whenever some task is not Done and none is under way (and none
\* Cancelled), every plan of the tasks has a Ready task
C38_SomeTaskReady ==
    Waiting => \A plan \in BuildExecutionPlan(status, deps) :
                  /\ GetReadyTasks(plan) # <<>>
                  /\ plan.ready_tasks >= 1

-----------------------------------------------------------------------------
(* One task for an issue (C40) *)

\* no run of sync_from_github is under way
NoSyncRunning == \A p \in Procs : sync[p].pc \in {"idle", "done"}

\* the tasks that no mapping binds to an issue
Unmapped == {t \in DOMAIN task_rows : \A m \in mappings : m.task_id # t}

\* C40: after any sequence of sync_from_github runs, also runs in which a
\* property upsert or the mapping creation of a new task failed, no task is
\* left without a mapping, and the tasks are no more than the issues that
\* have a mapping (no second task for an issue).
C40_OneTaskForAnIssue ==
    NoSyncRunning =>
        /\ Unmapped = {}
        /\ Len(task_rows) <= Cardinality({m.github_issue_number : m \in mappings})

====
